---- MODULE Spec2Model ----
(***************************************************************************)
(* Fabula Magica AI: the story generation pipeline of App.tsx (with the    *)
(* remote calls of services/geminiService.ts) and the view cursor and the  *)
(* per-page regenerations of components/StorybookView.tsx.                 *)
(*                                                                         *)
(* Every React state setter is an explicit variable.  One action is one    *)
(* synchronous run of a handler or of the continuation of an await: the    *)
(* state setters called in it are applied together (React batches them).   *)
(* A remote call is in flight between the action that issues it and the    *)
(* action that resumes its caller; the provider's answer is the input of   *)
(* the resuming action.                                                    *)
(***************************************************************************)
EXTENDS Integers, Sequences, FiniteSets, TLC

\* Largest page count the form submits in the model (the form allows 1..50).
MaxPages == 2
\* Largest number of regeneration requests in flight at once.
MaxRegens == 1
\* Largest number of handleGenerateVideo activations in flight at once.
MaxVideoJobs == 1
\* Largest number of handlers awaiting at once in the specifications of
\* overlapping requests.
MaxOverlap == 2
\* Largest number of audio source nodes alive at once (playing, or stopped
\* with their ended event not yet delivered).
MaxSources == 2

\* JavaScript null (error, videoUrl) and undefined (a local not yet assigned).
NULL == "null"
\* isRegeneratingImage holds a page number or null; page numbers start at 1.
NoPage == 0

(***************************************************************************)
(* Payloads of the provider.                                               *)
(***************************************************************************)

\* Elements the structured-generation endpoint may put in its array: the
\* schema requires both strings to be present, not to be non-empty.
StoryItems ==
  { [storyText |-> "", imagePrompt |-> "raposa"],
    [storyText |-> "Era uma vez", imagePrompt |-> "lanterna"] }

\* A JSON text that does not parse to an array (an object, or a syntax error).
NotAnArray == [isArray |-> FALSE, items |-> << >>]

JsonArray(items) == [isArray |-> TRUE, items |-> items]

\* Arrays of 0..MaxPages+1 elements.
SeqsUpTo(S, n) == UNION { [1..k -> S] : k \in 0..n }

StructureReplies ==
  { NotAnArray } \cup { JsonArray(s) : s \in SeqsUpTo(StoryItems, MaxPages + 1) }

\* inlineData of the first image part of a response.
ImageParts ==
  { [mimeType |-> "image/png", data |-> "iVBORw0KGgo"],
    [mimeType |-> "image/jpeg", data |-> "_9j_4AAQ"] }

\* candidates[0].content.parts[0].inlineData.data of a speech response;
\* "" stands for every falsy value (undefined, empty string).
AudioPayloads == { "", "UklGRg", "AAAAAA" }

\* Answers of the remote calls.  A call may reject instead of answering.
Rejected == [kind |-> "throws"]

\* response.text of the title call: characters of a short title.
TitleTexts == { <<"T">>, <<"\"", "T", "\"">>, <<" ", "T">> }

TitleReplies == { Rejected } \cup { [kind |-> "text", text |-> t] : t \in TitleTexts }

\* response.text of the title call without a title in it: nothing, a
\* blank, a pair of quotes.
BlankTitleTexts == { << >>, <<" ">>, <<"\"", "\"">> }

AnyTitleReplies ==
  TitleReplies \cup { [kind |-> "text", text |-> t] : t \in BlankTitleTexts }

StoryReplies ==
  { Rejected } \cup { [kind |-> "json", parsed |-> r] : r \in StructureReplies }

\* A response without an image part, or with one of the given parts.
ImageRepliesOf(parts) ==
  { Rejected, [kind |-> "noImage"] }
    \cup { [kind |-> "image", inlineData |-> p] : p \in parts }

SpeechRepliesOf(payloads) ==
  { Rejected } \cup { [kind |-> "audio", data |-> a] : a \in payloads }

ImageReplies == ImageRepliesOf(ImageParts)

SpeechReplies == SpeechRepliesOf(AudioPayloads)

\* The same kinds of answer with one image and one narration only, for the
\* specifications whose claims do not tell two payloads apart.
OneImageReplies ==
  ImageRepliesOf({ [mimeType |-> "image/png", data |-> "iVBORw0KGgo"] })

OneSpeechReplies == SpeechRepliesOf({ "", "UklGRg" })

\* A thrown value: its message, and whether JSON.stringify shows the message
\* (an Error keeps it in a non-enumerable property, a plain object does not).
ErrorObject(message) == [message |-> message, enumerable |-> FALSE]

PlainObject(message) == [message |-> message, enumerable |-> TRUE]

EntityNotFound == "Requested entity was not found."

QuotaExceeded == "Quota exceeded."

ThrownValues ==
  { ErrorObject(EntityNotFound), PlainObject(EntityNotFound),
    ErrorObject(QuotaExceeded) }

VideoRejections == { [kind |-> "throws", err |-> e] : e \in ThrownValues }

\* window.aistudio.hasSelectedApiKey / openSelectKey
HasKeyReplies ==
  { [kind |-> "throws", err |-> ErrorObject("aistudio")] }
    \cup { [kind |-> "bool", value |-> b] : b \in BOOLEAN }

OpenSelectKeyReplies ==
  { [kind |-> "throws", err |-> ErrorObject("aistudio")], [kind |-> "void"] }

\* The long-running operation as the provider reports it.
Operation(done, err, uri) == [done |-> done, error |-> err, uri |-> uri]

VideoOperations ==
  { Operation(FALSE, NULL, NULL),
    Operation(TRUE, NULL, "https://video/1"),
    Operation(TRUE, NULL, NULL),
    Operation(TRUE, EntityNotFound, NULL),
    Operation(TRUE, QuotaExceeded, NULL) }

OperationReplies ==
  VideoRejections \cup { [kind |-> "operation", operation |-> o] : o \in VideoOperations }

\* Result of a service function: it returned a value, or it threw.
Returned(v) == [ok |-> TRUE, value |-> v]

Threw == [ok |-> FALSE]

(***************************************************************************)
(* Pure functions of the source.                                           *)
(***************************************************************************)

Num(n) ==
  CASE n = 0 -> "0" [] n = 1 -> "1" [] n = 2 -> "2" [] n = 3 -> "3"
    [] n = 4 -> "4" [] n = 5 -> "5" [] n = 6 -> "6" [] n = 7 -> "7"
    [] n = 8 -> "8" [] n = 9 -> "9" [] OTHER -> "N"

Status(loading, message) == [isLoading |-> loading, message |-> message]

IdleStatus == Status(FALSE, "")

TitleMessage == "Invocando um titulo encantado..."

StructureMessage == "Tecendo os fios da sua aventura..."

\* Variant: the message shows the 0-based loop index.
ImageMessageFromZero(i, numPages) ==
  "Pintando a magia na pagina " \o Num(i - 1) \o " de " \o Num(numPages) \o "..."

ImageMessage(i, numPages) ==
  "Pintando a magia na pagina " \o Num(i) \o " de " \o Num(numPages) \o "..."

SpeechMessage(i, numPages) ==
  "Dando voz a historia na pagina " \o Num(i) \o " de " \o Num(numPages) \o "..."

StoryError == "Ocorreu um erro ao gerar a historia. Por favor, tente novamente."

\* String.prototype.trim on a sequence of characters.
RECURSIVE trimStart(_)
trimStart(s) ==
  IF s # << >> /\ Head(s) = " " THEN trimStart(Tail(s)) ELSE s

RECURSIVE trimEnd(_)
trimEnd(s) ==
  IF s # << >> /\ s[Len(s)] = " " THEN trimEnd(SubSeq(s, 1, Len(s) - 1)) ELSE s

trim(s) == trimEnd(trimStart(s))

\* A JavaScript number that is an integer, or NaN.
NaN == [nan |-> TRUE]

Number(n) == [nan |-> FALSE, value |-> n]

digitValue ==
  [c \in {"0", "1", "2", "3", "4", "5", "6", "7", "8", "9"} |->
     CASE c = "0" -> 0 [] c = "1" -> 1 [] c = "2" -> 2 [] c = "3" -> 3
       [] c = "4" -> 4 [] c = "5" -> 5 [] c = "6" -> 6 [] c = "7" -> 7
       [] c = "8" -> 8 [] c = "9" -> 9]

\* The longest prefix of s made of digits.
RECURSIVE leadingDigits(_)
leadingDigits(s) ==
  IF s # << >> /\ Head(s) \in DOMAIN digitValue
    THEN <<Head(s)>> \o leadingDigits(Tail(s)) ELSE << >>

RECURSIVE decimalValue(_)
decimalValue(ds) ==
  IF ds = << >> THEN 0
  ELSE 10 * decimalValue(SubSeq(ds, 1, Len(ds) - 1)) + digitValue[ds[Len(ds)]]

\* parseInt(s, 10): leading blanks are skipped, a sign is read, then the
\* digits up to the first other character; NaN when there is no digit.
parseInt(s) ==
  LET t == trimStart(s)
      negative == t # << >> /\ Head(t) = "-"
      unsigned == IF t # << >> /\ Head(t) \in {"-", "+"} THEN Tail(t) ELSE t
      ds == leadingDigits(unsigned)
  IN  IF ds = << >> THEN NaN
      ELSE Number(IF negative THEN 0 - decimalValue(ds) ELSE decimalValue(ds))

\* Math.max(a, b)
mathMax(a, b) ==
  IF a.nan \/ b.nan THEN NaN
  ELSE IF a.value >= b.value THEN a ELSE b

\* x || d on numbers: NaN and 0 are falsy.
orElse(x, d) == IF x.nan \/ x.value = 0 THEN d ELSE x.value

\* replace(/"/g, '')
stripQuotes(s) == SelectSeq(s, LAMBDA c : c # "\"")

\* generateTitleFromPlot, from the response on.
generateTitleFromPlot(reply) ==
  IF reply.kind = "text" THEN Returned(stripQuotes(trim(reply.text))) ELSE Threw

\* Variant: the returned count is not compared with the requested one.
validStoryContentAnyCount(parsedResponse, numPages) ==
  /\ parsedResponse.isArray
  /\ Len(parsedResponse.items) # 0

\* generateStoryContent: the checks between JSON.parse and the return.
validStoryContent(parsedResponse, numPages) ==
  /\ parsedResponse.isArray
  /\ Len(parsedResponse.items) # 0
  /\ Len(parsedResponse.items) = numPages

\* generateStoryContent, from the response on: every throw inside the try is
\* rethrown by the catch as one Error.
generateStoryContent(reply, numPages) ==
  IF reply.kind = "json" /\ validStoryContent(reply.parsed, numPages)
    THEN Returned(reply.parsed.items) ELSE Threw

\* generateStoryContent of the title-first revision: the array is tested for
\* being an array and for being non-empty, and returned.
generateStoryContentTitleFirst(reply) ==
  IF /\ reply.kind = "json"
     /\ reply.parsed.isArray
     /\ Len(reply.parsed.items) # 0
    THEN Returned(reply.parsed.items) ELSE Threw

\* Variant: pageNumber is the 0-based index.
pagesWithPromptsFromZero(storyContent) ==
  [ index \in 1..Len(storyContent) |->
      [ pageNumber  |-> index - 1,
        text        |-> storyContent[index].storyText,
        imagePrompt |-> storyContent[index].imagePrompt ] ]

\* handleGenerateStory: storyContent.map((page, index) => ...).
pagesWithPromptsOf(storyContent) ==
  [ index \in 1..Len(storyContent) |->
      [ pageNumber  |-> index,
        text        |-> storyContent[index].storyText,
        imagePrompt |-> storyContent[index].imagePrompt ] ]

\* generateImage: the data URI built from the image part.
dataUri(inlineData) ==
  "data:" \o inlineData.mimeType \o ";base64," \o inlineData.data

\* generateImage, from the response on.
generateImage(reply) ==
  IF reply.kind = "image" THEN Returned(dataUri(reply.inlineData)) ELSE Threw

\* Variant: an empty narration is returned like any other.
generateSpeechUnchecked(reply) ==
  IF reply.kind = "audio" THEN Returned(reply.data) ELSE Threw

\* generateSpeech, from the response on: if (!base64Audio) throw.
generateSpeech(reply) ==
  IF reply.kind = "audio" /\ reply.data # "" THEN Returned(reply.data) ELSE Threw

\* { ...page, imageUrl, audioData }
fullPage(page, url, audio) ==
  [ pageNumber  |-> page.pageNumber,
    text        |-> page.text,
    imagePrompt |-> page.imagePrompt,
    imageUrl    |-> url,
    audioData   |-> audio ]

\* Variant: every page of the list is replaced.
handleUpdatePageEvery(prevPages, updatedPage) ==
  [ k \in 1..Len(prevPages) |-> updatedPage ]

\* handleUpdatePage: prevPages.map(p => p.pageNumber === updatedPage.pageNumber ? updatedPage : p)
handleUpdatePage(prevPages, updatedPage) ==
  [ k \in 1..Len(prevPages) |->
      IF prevPages[k].pageNumber = updatedPage.pageNumber
        THEN updatedPage ELSE prevPages[k] ]

\* StorybookView: the number of views and what the cursor selects.
totalViews(pages) == 1 + Len(pages) * 2

isCoverAt(index) == index = 0

isImageViewAt(index) == ~isCoverAt(index) /\ index % 2 # 0

isTextViewAt(index) == ~isCoverAt(index) /\ index % 2 = 0

\* Variant: the index is halved without stepping back over the cover.
pageIndexAtHalved(index) == IF isCoverAt(index) THEN -1 ELSE index \div 2

\* Math.floor((currentViewIndex - 1) / 2), 0-based; -1 on the cover.
pageIndexAt(index) == IF isCoverAt(index) THEN -1 ELSE (index - 1) \div 2

\* pages[pageIndex] ?? null
NoPageData == [pageNumber |-> NoPage]

pageAt(pages, index) ==
  IF pageIndexAt(index) + 1 \in 1..Len(pages)
    THEN pages[pageIndexAt(index) + 1] ELSE NoPageData

\* Variant: the last view is not recognised as the last.
nextViewIndexPastEnd(prev, views) == IF prev < views THEN prev + 1 ELSE 0

\* Variant: stops at the cover instead of wrapping.
previousViewIndexNoWrap(prev, views) == IF prev > 0 THEN prev - 1 ELSE 0

\* goToNext: the updater prev => (prev < totalViews - 1 ? prev + 1 : 0)
nextViewIndex(prev, views) == IF prev < views - 1 THEN prev + 1 ELSE 0

\* goToPrevious: the updater prev => (prev > 0 ? prev - 1 : totalViews - 1)
previousViewIndex(prev, views) == IF prev > 0 THEN prev - 1 ELSE views - 1

(***************************************************************************)
(* State.                                                                  *)
(***************************************************************************)

VARIABLES
  \* App
  storyPages, storyTitle, generationStatus, videoUrl, videoGenerationStatus,
  error,
  \* the running handleGenerateStory: where it awaits, and its locals
  pc, numPages, pagesWithPrompts, generatedPages, imageUrl,
  \* remote calls of the pipeline that were issued and have not returned
  pipelineCalls,
  \* StorybookView (mounted while storyPages is not empty)
  currentViewIndex, isRegeneratingAudio, isRegeneratingImage,
  \* StorybookView: playback of the page narration (state and refs)
  isPlaying, sourceNodeRef, audioBufferRef,
  \* StorybookView: the narration of the cover (state and refs)
  coverAudioData, isGeneratingCoverAudio, isCoverAudioPlaying,
  coverAudioSourceNodeRef, coverAudioBufferRef,
  \* the AudioBufferSourceNodes that were started and whose ended event
  \* was not yet delivered; the promise reactions queued and not yet run
  sources, microtasks,
  \* page numbers whose object in storyPages is no longer the object the
  \* running pipeline holds in generatedPages (replaced by handleUpdatePage)
  replacedPages,
  \* regeneration handlers awaiting their remote call, oldest first
  regens,
  \* handleGenerateVideo activations awaiting a call or the poll timer
  videoJobs,
  \* history: the last structure response, every generationStatus set by the
  \* running generation, how the last generation ended and on which call,
  \* and the last cursor move
  storyReply, statusLog, outcome, failedCall, lastNav, lastVideo,
  \* StoryGeneratorForm: the plot typed (characters) and its numPages state
  plot, formNumPages

appVars ==
  <<storyPages, storyTitle, generationStatus, videoUrl, videoGenerationStatus,
    error>>

pipelineVars ==
  <<pc, numPages, pagesWithPrompts, generatedPages, imageUrl, pipelineCalls>>

viewVars == <<currentViewIndex, isRegeneratingAudio, isRegeneratingImage>>

historyVars == <<storyReply, statusLog, outcome, failedCall>>

audioVars ==
  <<isPlaying, sourceNodeRef, audioBufferRef, coverAudioData,
    isGeneratingCoverAudio, isCoverAudioPlaying, coverAudioSourceNodeRef,
    coverAudioBufferRef, sources, microtasks>>

formVars == <<plot, formNumPages>>

vars ==
  <<appVars, pipelineVars, viewVars, audioVars, replacedPages, regens,
    videoJobs, historyVars, lastNav, lastVideo, formVars>>

Call(api, page) == [api |-> api, page |-> page]

TitleCall == Call("generateTitleFromPlot", 0)

StoryCall == Call("generateStoryContent", 0)

ImageCall(page) == Call("generateImage", page)

SpeechCall(page) == Call("generateSpeech", page)

NoCall == Call("none", 0)

NoReply == [kind |-> "none"]

NoNav == [op |-> "none", from |-> 0, views |-> 0]

\* No operation has been received.
NoOperation == [done |-> FALSE, error |-> NULL, uri |-> NULL]

NoVideo ==
  [how |-> "none", reauthorized |-> FALSE, notFound |-> FALSE,
   operation |-> NoOperation]

mounted == Len(storyPages) > 0

page == pageAt(storyPages, currentViewIndex)

(***************************************************************************)
(* StorybookView: audio (refs, effects, playback).                         *)
(*                                                                         *)
(* The effects of a render run in the action that causes the render.  A    *)
(* promise reaction (the .then of decodeAudioData, whose body has no       *)
(* await) is a microtask: it runs before the next handler, timer or        *)
(* event.  The ended event of a source node is an event like any other.    *)
(* audioContextRef and coverAudioContextRef are not variables: a buffer    *)
(* ref is set only by a decode, which creates the context first, so a      *)
(* decoded buffer implies its context.                                     *)
(***************************************************************************)

\* useRef<AudioBufferSourceNode | null>(null); the nodes are numbered from 1.
NoSource == 0

\* useRef<AudioBuffer | null>(null)
NoBuffer == [decoded |-> FALSE]

\* decodeAudioData(decode(base64), ctx, 24000, 1): the samples of a payload
\* of 16-bit mono PCM.
decodeAudioData(base64) == [decoded |-> TRUE, pcm |-> base64]

FreeNode == [state |-> "free"]

\* createBufferSource(); source.buffer = buffer; connect; start(): the node,
\* which kind of narration it plays and the cursor it was started at.
startedSource(kind, buffer, view) ==
  [state |-> "playing", kind |-> kind, buffer |-> buffer, view |-> view]

\* stop() on each of the nodes ids: a playing node stops and its ended
\* event becomes due; a node already stopped is not affected.
stopNodes(nodes, ids) ==
  [id \in DOMAIN nodes |->
     IF id \in ids /\ nodes[id].state = "playing"
       THEN [nodes[id] EXCEPT !.state = "ended"] ELSE nodes[id]]

freeNodes == { id \in DOMAIN sources : sources[id].state = "free" }

newNode == CHOOSE id \in freeNodes : \A other \in freeNodes : id <= other

\* A queued promise reaction: the ref it assigns and the decoded buffer.
Reaction(ref, buffer) == [ref |-> ref, buffer |-> buffer]

\* Variant: the decode completes as a later task, after other events.
microtasksNotAwaited == TRUE

\* The microtask queue is emptied before the next task (a handler, a
\* timer, an event, the continuation of a remote call) runs: every such
\* action has this guard.
microtasksDrained == microtasks = << >>

NoAudioNodes == [id \in 1..MaxSources |-> FreeNode]

\* useEffect(..., [currentViewIndex, page, isCover])
viewEffectDeps(indexChanged, pageChanged) == indexChanged \/ pageChanged

\* The two effects of StorybookView after a render with the cursor at index
\* over pages: the effect of [pages] when runCover, then the effect of
\* [currentViewIndex, page, isCover] when runView.
effects(runCover, runView, index, pages) ==
  LET pg == pageAt(pages, index)
      stopPage ==
        IF runView /\ sourceNodeRef # NoSource THEN {sourceNodeRef} ELSE {}
      stopCover ==
        IF /\ coverAudioSourceNodeRef # NoSource
           /\ runCover \/ (runView /\ ~isCoverAt(index))
          THEN {coverAudioSourceNodeRef} ELSE {}
      decodes ==
        /\ runView
        /\ isTextViewAt(index)
        /\ pg # NoPageData
        /\ pg.audioData # ""
  IN
  /\ sources' = stopNodes(sources, stopPage \cup stopCover)
  /\ sourceNodeRef' = IF runView THEN NoSource ELSE sourceNodeRef
  /\ isPlaying' = IF runView THEN FALSE ELSE isPlaying
  /\ audioBufferRef' = IF runView THEN NoBuffer ELSE audioBufferRef
  /\ microtasks' =
       IF decodes
         THEN Append(microtasks, Reaction("page", decodeAudioData(pg.audioData)))
         ELSE microtasks
  /\ coverAudioData' = IF runCover THEN NULL ELSE coverAudioData
  /\ isCoverAudioPlaying' = IF runCover THEN FALSE ELSE isCoverAudioPlaying
  /\ coverAudioSourceNodeRef' =
       IF runCover THEN NoSource ELSE coverAudioSourceNodeRef
  /\ coverAudioBufferRef' = IF runCover THEN NoBuffer ELSE coverAudioBufferRef
  /\ UNCHANGED isGeneratingCoverAudio

\* Variant: the cleanup closes the context of the page narration only.
unmountAudioPageContextOnly ==
  /\ isPlaying' = FALSE
  /\ sourceNodeRef' = NoSource
  /\ audioBufferRef' = NoBuffer
  /\ coverAudioData' = NULL
  /\ isGeneratingCoverAudio' = FALSE
  /\ isCoverAudioPlaying' = FALSE
  /\ coverAudioSourceNodeRef' = NoSource
  /\ coverAudioBufferRef' = NoBuffer
  /\ sources' =
       [id \in DOMAIN sources |->
          IF sources[id].state # "free" /\ sources[id].kind = "cover"
            THEN sources[id] ELSE FreeNode]
  /\ microtasks' = << >>

\* StorybookView is unmounted: its state and refs are dropped and the
\* cleanup closes the audio contexts, which silences their nodes.  A cover
\* narration still awaited resumes on the dropped instance only.
unmountAudio ==
  /\ isPlaying' = FALSE
  /\ sourceNodeRef' = NoSource
  /\ audioBufferRef' = NoBuffer
  /\ coverAudioData' = NULL
  /\ isGeneratingCoverAudio' = FALSE
  /\ isCoverAudioPlaying' = FALSE
  /\ coverAudioSourceNodeRef' = NoSource
  /\ coverAudioBufferRef' = NoBuffer
  /\ sources' = NoAudioNodes
  /\ microtasks' = << >>

audioFrame ==
  UNCHANGED <<appVars, pipelineVars, viewVars, replacedPages, regens,
              videoJobs, historyVars, lastNav, lastVideo,
                 formVars>>

\* The first queued promise reaction runs: .then(buffer => ...) of the
\* effect, or handleGenerateCoverAudio after await decodeAudioData.
decodeResolved ==
  /\ microtasks # << >>
  /\ IF Head(microtasks).ref = "page"
       THEN /\ audioBufferRef' = Head(microtasks).buffer
            /\ UNCHANGED <<coverAudioBufferRef, isGeneratingCoverAudio>>
       ELSE /\ coverAudioBufferRef' = Head(microtasks).buffer
            /\ isGeneratingCoverAudio' = FALSE
            /\ UNCHANGED audioBufferRef
  /\ microtasks' = Tail(microtasks)
  /\ UNCHANGED <<isPlaying, sourceNodeRef, coverAudioData,
                 isCoverAudioPlaying, coverAudioSourceNodeRef, sources>>
  /\ audioFrame

\* The play/pause button of the text view; disabled while
\* isRegeneratingAudio.  (Its disabled attribute also shows
\* !audioBufferRef.current as of the last render; any render refreshes it,
\* and the handler tests the ref itself.)
handlePlayPause ==
  /\ microtasksDrained
  /\ mounted
  /\ isTextViewAt(currentViewIndex)
  /\ page # NoPageData
  /\ ~isRegeneratingAudio
  /\ IF audioBufferRef = NoBuffer
       THEN UNCHANGED <<isPlaying, sourceNodeRef, sources>>
     ELSE IF isPlaying
       THEN /\ sources' =
                 stopNodes(sources,
                           IF sourceNodeRef # NoSource
                             THEN {sourceNodeRef} ELSE {})
            /\ UNCHANGED <<isPlaying, sourceNodeRef>>
     ELSE /\ freeNodes # {}
          /\ sources' =
               [sources EXCEPT
                  ![newNode] =
                    startedSource("page", audioBufferRef, currentViewIndex)]
          /\ sourceNodeRef' = newNode
          /\ isPlaying' = TRUE
  /\ UNCHANGED <<audioBufferRef, coverAudioData, isGeneratingCoverAudio,
                 isCoverAudioPlaying, coverAudioSourceNodeRef,
                 coverAudioBufferRef, microtasks>>
  /\ audioFrame

\* The speaker button of the cover, shown while there is no cover
\* narration and no video; disabled while isGeneratingCoverAudio.
handleGenerateCoverAudio ==
  /\ microtasksDrained
  /\ mounted
  /\ isCoverAt(currentViewIndex)
  /\ videoUrl = NULL
  /\ coverAudioData = NULL
  /\ ~isGeneratingCoverAudio
  /\ isGeneratingCoverAudio' = TRUE
  /\ UNCHANGED <<isPlaying, sourceNodeRef, audioBufferRef, coverAudioData,
                 isCoverAudioPlaying, coverAudioSourceNodeRef,
                 coverAudioBufferRef, sources, microtasks>>
  /\ audioFrame

\* generateCoverAudio(title): a narration, or it throws.
generateCoverAudio(reply) == generateSpeech(reply)

\* await generateCoverAudio returns or throws.
coverAudioReturned(reply) ==
  LET r == generateCoverAudio(reply) IN
  /\ microtasksDrained
  /\ mounted
  /\ isGeneratingCoverAudio
  /\ IF r.ok
       THEN /\ coverAudioData' = r.value
            /\ microtasks' =
                 Append(microtasks, Reaction("cover", decodeAudioData(r.value)))
            /\ UNCHANGED isGeneratingCoverAudio
       ELSE /\ isGeneratingCoverAudio' = FALSE
            /\ UNCHANGED <<coverAudioData, microtasks>>
  /\ UNCHANGED <<isPlaying, sourceNodeRef, audioBufferRef,
                 isCoverAudioPlaying, coverAudioSourceNodeRef,
                 coverAudioBufferRef, sources>>
  /\ audioFrame

\* The play/pause button of the cover, shown once there is a cover
\* narration and while there is no video.
handlePlayPauseCoverAudio ==
  /\ microtasksDrained
  /\ mounted
  /\ isCoverAt(currentViewIndex)
  /\ videoUrl = NULL
  /\ coverAudioData # NULL
  /\ IF coverAudioBufferRef = NoBuffer
       THEN UNCHANGED <<isCoverAudioPlaying, coverAudioSourceNodeRef, sources>>
     ELSE IF isCoverAudioPlaying
       THEN /\ sources' =
                 stopNodes(sources,
                           IF coverAudioSourceNodeRef # NoSource
                             THEN {coverAudioSourceNodeRef} ELSE {})
            /\ UNCHANGED <<isCoverAudioPlaying, coverAudioSourceNodeRef>>
     ELSE /\ freeNodes # {}
          /\ sources' =
               [sources EXCEPT
                  ![newNode] =
                    startedSource("cover", coverAudioBufferRef,
                                  currentViewIndex)]
          /\ coverAudioSourceNodeRef' = newNode
          /\ isCoverAudioPlaying' = TRUE
  /\ UNCHANGED <<isPlaying, sourceNodeRef, audioBufferRef, coverAudioData,
                 isGeneratingCoverAudio, coverAudioBufferRef, microtasks>>
  /\ audioFrame

\* The buffer of node id has been played to its end.
playbackEnds(id) ==
  /\ microtasksDrained
  /\ sources[id].state = "playing"
  /\ sources' = [sources EXCEPT ![id].state = "ended"]
  /\ UNCHANGED <<isPlaying, sourceNodeRef, audioBufferRef, coverAudioData,
                 isGeneratingCoverAudio, isCoverAudioPlaying,
                 coverAudioSourceNodeRef, coverAudioBufferRef, microtasks>>
  /\ audioFrame

\* Variant: onended leaves the ref alone.
endedRefKept(ref, id) == ref

\* onended: if (ref.current === source) { disconnect(); ref.current = null }
endedRef(ref, id) == IF ref = id THEN NoSource ELSE ref

\* source.onended of node id, stopped or played to its end.
onended(id) ==
  /\ microtasksDrained
  /\ sources[id].state = "ended"
  /\ sources' = [sources EXCEPT ![id] = FreeNode]
  /\ IF sources[id].kind = "page"
       THEN /\ isPlaying' = FALSE
            /\ sourceNodeRef' = endedRef(sourceNodeRef, id)
            /\ UNCHANGED <<isCoverAudioPlaying, coverAudioSourceNodeRef>>
       ELSE /\ isCoverAudioPlaying' = FALSE
            /\ coverAudioSourceNodeRef' = endedRef(coverAudioSourceNodeRef, id)
            /\ UNCHANGED <<isPlaying, sourceNodeRef>>
  /\ UNCHANGED <<audioBufferRef, coverAudioData, isGeneratingCoverAudio,
                 coverAudioBufferRef, microtasks>>
  /\ audioFrame

Init ==
  /\ storyPages = << >>
  /\ storyTitle = << >>
  /\ generationStatus = IdleStatus
  /\ videoUrl = NULL
  /\ videoGenerationStatus = IdleStatus
  /\ error = NULL
  /\ pc = "idle"
  /\ numPages = 0
  /\ pagesWithPrompts = << >>
  /\ generatedPages = << >>
  /\ imageUrl = NULL
  /\ pipelineCalls = {}
  /\ currentViewIndex = 0
  /\ isRegeneratingAudio = FALSE
  /\ isRegeneratingImage = NoPage
  /\ isPlaying = FALSE
  /\ sourceNodeRef = NoSource
  /\ audioBufferRef = NoBuffer
  /\ coverAudioData = NULL
  /\ isGeneratingCoverAudio = FALSE
  /\ isCoverAudioPlaying = FALSE
  /\ coverAudioSourceNodeRef = NoSource
  /\ coverAudioBufferRef = NoBuffer
  /\ sources = NoAudioNodes
  /\ microtasks = << >>
  /\ replacedPages = {}
  /\ regens = << >>
  /\ videoJobs = << >>
  /\ storyReply = NoReply
  /\ statusLog = << >>
  /\ outcome = "none"
  /\ failedCall = NoCall
  /\ lastNav = NoNav
  /\ lastVideo = NoVideo
  /\ plot = <<"Q">>
  /\ formNumPages = 5

(***************************************************************************)
(* handleGenerateStory (App.tsx).                                          *)
(***************************************************************************)

\* The view is unmounted when the list empties: its state is dropped and
\* the setters of handlers still awaiting no longer reach a mounted view.
unmountedRegens(rs) == [k \in 1..Len(rs) |-> [rs[k] EXCEPT !.mounted = FALSE]]

\* Video jobs still running belong to the story that is being replaced.
previousStoryJobs(js) == [k \in 1..Len(js) |-> [js[k] EXCEPT !.current = FALSE]]

\* Variant: the video of the previous story is kept.
clearStoryKeepingVideo ==
  /\ error' = NULL
  /\ storyPages' = << >>
  /\ storyTitle' = << >>
  /\ UNCHANGED videoUrl
  /\ videoGenerationStatus' = IdleStatus

\* setError(null); setStoryPages([]); setStoryTitle(''); setVideoUrl(null);
\* setVideoGenerationStatus({ isLoading: false, message: '' })
clearStory ==
  /\ error' = NULL
  /\ storyPages' = << >>
  /\ storyTitle' = << >>
  /\ videoUrl' = NULL
  /\ videoGenerationStatus' = IdleStatus

\* Variant: the submit button stays enabled during a generation.
submitDisabledNever == FALSE

\* <StoryGeneratorForm isLoading={generationStatus.isLoading} />: the
\* inputs of the form and its submit button are disabled while isLoading.
submitDisabled == generationStatus.isLoading

\* The form submits: the synchronous part, up to the first await.
\* The submit button is disabled while generationStatus.isLoading.
handleGenerateStory(n) ==
  /\ microtasksDrained
  /\ ~submitDisabled
  /\ generationStatus' = Status(TRUE, TitleMessage)
  /\ clearStory
  /\ pc' = "title"
  /\ numPages' = n
  /\ pagesWithPrompts' = << >>
  /\ generatedPages' = << >>
  /\ imageUrl' = NULL
  /\ pipelineCalls' = pipelineCalls \cup {TitleCall}
  /\ currentViewIndex' = 0
  /\ isRegeneratingAudio' = FALSE
  /\ isRegeneratingImage' = NoPage
  /\ unmountAudio
  /\ replacedPages' = {}
  /\ regens' = unmountedRegens(regens)
  /\ videoJobs' = previousStoryJobs(videoJobs)
  /\ storyReply' = NoReply
  /\ statusLog' = <<Status(TRUE, TitleMessage)>>
  /\ outcome' = "running"
  /\ failedCall' = NoCall
  /\ lastNav' = NoNav
  /\ lastVideo' = NoVideo
  /\ UNCHANGED formVars

\* Variant: the catch does not reset the loading flag.
catchStoryErrorStillLoading(call) ==
  /\ error' = StoryError
  /\ generationStatus' = generationStatus
  /\ statusLog' = statusLog
  /\ pc' = "idle"
  /\ imageUrl' = NULL
  /\ pipelineCalls' = pipelineCalls \ {call}
  /\ outcome' = "failed"
  /\ failedCall' = call

\* catch (err): the awaited call threw.
catchStoryError(call) ==
  /\ error' = StoryError
  /\ generationStatus' = IdleStatus
  /\ statusLog' = Append(statusLog, IdleStatus)
  /\ pc' = "idle"
  /\ imageUrl' = NULL
  /\ pipelineCalls' = pipelineCalls \ {call}
  /\ outcome' = "failed"
  /\ failedCall' = call

\* Variant: the narration is requested together with the image.
loopCallsFanOut(i) == {ImageCall(i), SpeechCall(i)}

\* Remote calls issued when the loop starts the iteration of page i (1-based).
loopCalls(i) == {ImageCall(i)}

\* Remote calls issued when the image of page i has returned.
imageReturnedCalls(i) == {SpeechCall(i)}

\* await generateTitleFromPlot returns or throws.
titleReturned(reply) ==
  /\ microtasksDrained
  /\ pc = "title"
  /\ TitleCall \in pipelineCalls
  /\ LET r == generateTitleFromPlot(reply) IN
       IF r.ok
         THEN /\ storyTitle' = r.value
              /\ generationStatus' = Status(TRUE, StructureMessage)
              /\ statusLog' = Append(statusLog, Status(TRUE, StructureMessage))
              /\ pc' = "structure"
              /\ pipelineCalls' = (pipelineCalls \ {TitleCall}) \cup {StoryCall}
              /\ UNCHANGED <<error, imageUrl, outcome, failedCall>>
         ELSE /\ catchStoryError(TitleCall)
              /\ UNCHANGED storyTitle
  /\ UNCHANGED <<storyPages, videoUrl, videoGenerationStatus, numPages,
                 pagesWithPrompts, generatedPages, viewVars, audioVars,
                 replacedPages, regens, videoJobs, storyReply, lastNav,
                 lastVideo,
                 formVars>>

\* The loop is entered at page i, or left when no page remains.
enterLoop(i, pages, calls) ==
  IF i <= Len(pages)
    THEN /\ generationStatus' = Status(TRUE, ImageMessage(i, numPages))
         /\ statusLog' =
              Append(statusLog, Status(TRUE, ImageMessage(i, numPages)))
         /\ pc' = "image"
         /\ pipelineCalls' = calls \cup loopCalls(i)
         /\ outcome' = outcome
    ELSE /\ generationStatus' = IdleStatus
         /\ statusLog' = Append(statusLog, IdleStatus)
         /\ pc' = "idle"
         /\ pipelineCalls' = calls
         /\ outcome' = "completed"

\* await generateStoryContent returns or throws.
storyContentReturned(reply) ==
  /\ microtasksDrained
  /\ pc = "structure"
  /\ StoryCall \in pipelineCalls
  /\ storyReply' = reply
  /\ LET r == generateStoryContent(reply, numPages) IN
       IF r.ok
         THEN /\ pagesWithPrompts' = pagesWithPromptsOf(r.value)
              /\ generatedPages' = << >>
              /\ enterLoop(1, pagesWithPromptsOf(r.value),
                           pipelineCalls \ {StoryCall})
              /\ UNCHANGED <<error, imageUrl, failedCall>>
         ELSE /\ catchStoryError(StoryCall)
              /\ UNCHANGED <<pagesWithPrompts, generatedPages>>
  /\ UNCHANGED <<storyPages, storyTitle, videoUrl, videoGenerationStatus,
                 numPages, viewVars, audioVars, replacedPages, regens,
                 videoJobs, lastNav, lastVideo,
                 formVars>>

\* await generateImage returns or throws, for page Len(generatedPages) + 1.
imageReturned(reply) ==
  LET i == Len(generatedPages) + 1
      r == generateImage(reply)
  IN
  /\ microtasksDrained
  /\ pc = "image"
  /\ ImageCall(i) \in pipelineCalls
  /\ IF r.ok
       THEN /\ imageUrl' = r.value
            /\ generationStatus' = Status(TRUE, SpeechMessage(i, numPages))
            /\ statusLog' =
                 Append(statusLog, Status(TRUE, SpeechMessage(i, numPages)))
            /\ pc' = "speech"
            /\ pipelineCalls' =
                 (pipelineCalls \ {ImageCall(i)}) \cup imageReturnedCalls(i)
            /\ UNCHANGED <<error, outcome, failedCall>>
       ELSE catchStoryError(ImageCall(i))
  /\ replacedPages' = IF r.ok THEN replacedPages ELSE {}
  /\ UNCHANGED <<storyPages, storyTitle, videoUrl, videoGenerationStatus,
                 numPages, pagesWithPrompts, generatedPages, viewVars,
                 audioVars, regens, videoJobs, storyReply, lastNav,
                 lastVideo,
                 formVars>>

\* setStoryPages([...generatedPages])
publish(generated) == generated

\* await generateSpeech returns or throws: the page is pushed and the list
\* published, then the loop goes on or the handler ends.
speechReturned(reply) ==
  LET i == Len(generatedPages) + 1
      r == generateSpeech(reply)
  IN
  /\ microtasksDrained
  /\ pc = "speech"
  /\ SpeechCall(i) \in pipelineCalls
  /\ IF r.ok
       THEN /\ generatedPages' =
                 Append(generatedPages,
                        fullPage(pagesWithPrompts[i], imageUrl, r.value))
            /\ storyPages' = publish(generatedPages')
            /\ imageUrl' = NULL
            /\ enterLoop(i + 1, pagesWithPrompts,
                         pipelineCalls \ {SpeechCall(i)})
            /\ effects(TRUE,
                       viewEffectDeps(FALSE, page.pageNumber \in replacedPages),
                       currentViewIndex, storyPages')
            /\ UNCHANGED <<error, failedCall>>
       ELSE /\ catchStoryError(SpeechCall(i))
            /\ UNCHANGED <<storyPages, generatedPages, audioVars>>
  /\ replacedPages' = {}
  /\ UNCHANGED <<storyTitle, videoUrl, videoGenerationStatus, numPages,
                 pagesWithPrompts, viewVars, regens, videoJobs, storyReply,
                 lastNav, lastVideo,
                 formVars>>

(***************************************************************************)
(* StorybookView: navigation.                                              *)
(***************************************************************************)

Nav(op, from, views) == [op |-> op, from |-> from, views |-> views]

\* lastNav is recorded (track) only in the specification that reads it.
navigated(track, op) ==
  /\ lastNav' =
       IF track THEN Nav(op, currentViewIndex, totalViews(storyPages))
                ELSE NoNav
  /\ effects(FALSE,
             viewEffectDeps(currentViewIndex' # currentViewIndex, FALSE),
             currentViewIndex', storyPages)
  /\ UNCHANGED <<appVars, pipelineVars, isRegeneratingAudio,
                 isRegeneratingImage, replacedPages, regens, videoJobs,
                 historyVars, lastVideo, formVars>>

\* The right arrow, and the button of the cover.
goToNext(track) ==
  /\ microtasksDrained
  /\ mounted
  /\ currentViewIndex' =
       nextViewIndex(currentViewIndex, totalViews(storyPages))
  /\ navigated(track, "next")

\* The left arrow.
goToPrevious(track) ==
  /\ microtasksDrained
  /\ mounted
  /\ currentViewIndex' =
       previousViewIndex(currentViewIndex, totalViews(storyPages))
  /\ navigated(track, "prev")

\* renderVideoButton: the button shown once the video exists.
jumpToCover(track) ==
  /\ microtasksDrained
  /\ mounted
  /\ ~videoGenerationStatus.isLoading
  /\ videoUrl # NULL
  /\ currentViewIndex' = 0
  /\ navigated(track, "cover")

(***************************************************************************)
(* StorybookView: regeneration of one page's image or narration.           *)
(***************************************************************************)

\* A handler awaiting its remote call: which handler, the page object its
\* closure captured, and whether the view that started it is still mounted.
Regen(kind, captured) == [kind |-> kind, page |-> captured, mounted |-> TRUE]

RemoveAt(seq, k) == SubSeq(seq, 1, k - 1) \o SubSeq(seq, k + 1, Len(seq))

\* { ...page, imageUrl: newImageUrl }
withImageUrl(captured, newImageUrl) == [captured EXCEPT !.imageUrl = newImageUrl]

\* Variant: the page displayed when the reply arrives gets the narration.
withAudioDataOfDisplayed(captured, newAudioData) ==
  IF page # NoPageData
    THEN [page EXCEPT !.audioData = newAudioData]
    ELSE [captured EXCEPT !.audioData = newAudioData]

\* { ...page, audioData: newAudioData }
withAudioData(captured, newAudioData) ==
  [captured EXCEPT !.audioData = newAudioData]

\* The button of the image view; disabled while this page's image is
\* being regenerated.  At most limit regenerations are awaited at once.
handleRegenerateImageUpTo(limit) ==
  /\ microtasksDrained
  /\ mounted
  /\ isImageViewAt(currentViewIndex)
  /\ page # NoPageData
  /\ isRegeneratingImage # page.pageNumber
  /\ Len(regens) < limit
  /\ isRegeneratingImage' = page.pageNumber
  /\ regens' = Append(regens, Regen("image", page))
  /\ UNCHANGED <<appVars, pipelineVars, currentViewIndex, isRegeneratingAudio,
                 audioVars, replacedPages, videoJobs, historyVars, lastNav,
                 lastVideo,
                 formVars>>

handleRegenerateImage == handleRegenerateImageUpTo(MaxRegens)

\* The button of the text view; disabled while isRegeneratingAudio.
handleRegenerateNarrationUpTo(limit) ==
  /\ microtasksDrained
  /\ mounted
  /\ isTextViewAt(currentViewIndex)
  /\ page # NoPageData
  /\ ~isRegeneratingAudio
  /\ Len(regens) < limit
  /\ isRegeneratingAudio' = TRUE
  /\ regens' = Append(regens, Regen("narration", page))
  /\ UNCHANGED <<appVars, pipelineVars, currentViewIndex, isRegeneratingImage,
                 audioVars, replacedPages, videoJobs, historyVars, lastNav,
                 lastVideo,
                 formVars>>

handleRegenerateNarration == handleRegenerateNarrationUpTo(MaxRegens)

\* The voice selector of the text view; disabled while isRegeneratingAudio.
\* The chosen voice is an argument of the request only.
handleVoiceChangeUpTo(limit) ==
  /\ microtasksDrained
  /\ mounted
  /\ isTextViewAt(currentViewIndex)
  /\ page # NoPageData
  /\ ~isRegeneratingAudio
  /\ Len(regens) < limit
  /\ isRegeneratingAudio' = TRUE
  /\ regens' = Append(regens, Regen("voice", page))
  /\ UNCHANGED <<appVars, pipelineVars, currentViewIndex, isRegeneratingImage,
                 audioVars, replacedPages, videoJobs, historyVars, lastNav,
                 lastVideo,
                 formVars>>

handleVoiceChange == handleVoiceChangeUpTo(MaxRegens)

\* The render after onUpdatePage(updatedPage) when the call succeeded: the
\* list is a new array, and the page with that number a new object.
pageUpdated(ok, pageNumber) ==
  IF ok
    THEN /\ effects(TRUE,
                    viewEffectDeps(FALSE, /\ page # NoPageData
                                          /\ page.pageNumber = pageNumber),
                    currentViewIndex, storyPages')
         /\ replacedPages' =
              IF pc # "idle" /\ pageNumber \in 1..Len(storyPages)
                THEN replacedPages \cup {pageNumber} ELSE replacedPages
    ELSE UNCHANGED <<audioVars, replacedPages>>

\* handleRegenerateImage resumes: onUpdatePage on success, then finally.
imageRegenerated(k, reply) ==
  LET r == generateImage(reply) IN
  /\ microtasksDrained
  /\ k \in 1..Len(regens)
  /\ regens[k].kind = "image"
  /\ storyPages' =
       IF r.ok
         THEN handleUpdatePage(storyPages, withImageUrl(regens[k].page, r.value))
         ELSE storyPages
  /\ isRegeneratingImage' =
       IF regens[k].mounted THEN NoPage ELSE isRegeneratingImage
  /\ regens' = RemoveAt(regens, k)
  /\ pageUpdated(r.ok, regens[k].page.pageNumber)
  /\ UNCHANGED <<storyTitle, generationStatus, videoUrl,
                 videoGenerationStatus, error, pipelineVars, currentViewIndex,
                 isRegeneratingAudio, videoJobs, historyVars, lastNav,
                 lastVideo,
                 formVars>>

\* Variant: no finally, the flag stays set when the call throws.
narrationRegeneratedNoFinally(k, reply) ==
  LET r == generateSpeech(reply) IN
  /\ microtasksDrained
  /\ k \in 1..Len(regens)
  /\ regens[k].kind \in {"narration", "voice"}
  /\ storyPages' =
       IF r.ok
         THEN handleUpdatePage(storyPages, withAudioData(regens[k].page, r.value))
         ELSE storyPages
  /\ isRegeneratingAudio' =
       IF regens[k].mounted /\ r.ok THEN FALSE ELSE isRegeneratingAudio
  /\ regens' = RemoveAt(regens, k)
  /\ pageUpdated(r.ok, regens[k].page.pageNumber)
  /\ UNCHANGED <<storyTitle, generationStatus, videoUrl,
                 videoGenerationStatus, error, pipelineVars, currentViewIndex,
                 isRegeneratingImage, videoJobs, historyVars, lastNav,
                 lastVideo,
                 formVars>>

\* handleRegenerateNarration or handleVoiceChange resumes.
narrationRegenerated(k, reply) ==
  LET r == generateSpeech(reply) IN
  /\ microtasksDrained
  /\ k \in 1..Len(regens)
  /\ regens[k].kind \in {"narration", "voice"}
  /\ storyPages' =
       IF r.ok
         THEN handleUpdatePage(storyPages, withAudioData(regens[k].page, r.value))
         ELSE storyPages
  /\ isRegeneratingAudio' =
       IF regens[k].mounted THEN FALSE ELSE isRegeneratingAudio
  /\ regens' = RemoveAt(regens, k)
  /\ pageUpdated(r.ok, regens[k].page.pageNumber)
  /\ UNCHANGED <<storyTitle, generationStatus, videoUrl,
                 videoGenerationStatus, error, pipelineVars, currentViewIndex,
                 isRegeneratingImage, videoJobs, historyVars, lastNav,
                 lastVideo,
                 formVars>>

(***************************************************************************)
(* handleGenerateVideo (App.tsx) with generateStoryVideo.                  *)
(***************************************************************************)

ApiKey == "API_KEY"

VideoKeyError ==
  "Sua chave de API pode nao ter acesso ao Veo. Por favor, selecione uma chave diferente e tente novamente."

VideoError == "Ocorreu um erro ao gerar o video. Por favor, tente novamente."

\* JSON.stringify(err)
stringify(err) ==
  IF err.enumerable THEN "{\"message\":\"" \o err.message \o "\"}" ELSE "{}"

\* errorString.includes("Requested entity was not found")
includesEntityNotFound(errorString) ==
  errorString \in
    { stringify(PlainObject(m)) :
        m \in { EntityNotFound,
                "Erro na operacao de video: " \o EntityNotFound } }

\* The calls of handleGenerateVideo that have not returned are told apart
\* by a number, free again once the call has returned.
newVideoJob ==
  CHOOSE id \in 1..(Len(videoJobs) + 1) :
    /\ \A k \in 1..Len(videoJobs) : videoJobs[k].id # id
    /\ \A other \in 1..(id - 1) :
         \E k \in 1..Len(videoJobs) : videoJobs[k].id = other

VideoJob(at) == [pc |-> at, current |-> TRUE, id |-> newVideoJob]

videoFrame ==
  UNCHANGED <<storyPages, storyTitle, generationStatus, pipelineVars,
              viewVars, audioVars, replacedPages, regens, historyVars,
              lastNav,
                 formVars>>

\* The button shown while there is no video and none is being generated:
\* the synchronous part of handleGenerateVideo, up to the first await.
handleGenerateVideoUpTo(limit) ==
  /\ microtasksDrained
  /\ mounted
  /\ ~videoGenerationStatus.isLoading
  /\ videoUrl = NULL
  /\ Len(videoJobs) < limit
  /\ videoUrl' = NULL
  /\ error' = NULL
  /\ videoJobs' = Append(videoJobs, VideoJob("hasKey"))
  /\ UNCHANGED <<videoGenerationStatus, lastVideo>>
  /\ videoFrame

\* The message of a failure that is the provider's "Requested entity was
\* not found" condition, as thrown by the SDK or as rethrown from the error
\* field of the finished operation.
isEntityNotFound(message) ==
  message \in { EntityNotFound,
                "Erro na operacao de video: " \o EntityNotFound }

\* Variant: the catch leaves the loading indicator on.
catchVideoErrorStillLoading(k, err) ==
  /\ error' =
       IF includesEntityNotFound(stringify(err))
         THEN VideoKeyError ELSE VideoError
  /\ videoJobs' = RemoveAt(videoJobs, k)
  /\ lastVideo' =
       [how |-> "error",
        reauthorized |-> includesEntityNotFound(stringify(err)),
        notFound |-> isEntityNotFound(err.message),
        operation |-> NoOperation]
  /\ UNCHANGED <<videoUrl, videoGenerationStatus>>

handleGenerateVideo == handleGenerateVideoUpTo(MaxVideoJobs)

\* catch (err) of handleGenerateVideo.
catchVideoError(k, err) ==
  /\ error' =
       IF includesEntityNotFound(stringify(err))
         THEN VideoKeyError ELSE VideoError
  /\ videoGenerationStatus' = IdleStatus
  /\ videoJobs' = RemoveAt(videoJobs, k)
  /\ lastVideo' =
       [how |-> "error",
        reauthorized |-> includesEntityNotFound(stringify(err)),
        notFound |-> isEntityNotFound(err.message),
        operation |-> NoOperation]
  /\ UNCHANGED videoUrl

\* setVideoGenerationStatus, then generateStoryVideo up to its first await;
\* of the status messages set in this run the last one is rendered.
startStoryVideo(k) ==
  /\ videoGenerationStatus' =
       Status(TRUE, "Enviando solicitacao para a API de video...")
  /\ videoJobs' = [videoJobs EXCEPT ![k].pc = "generateVideos"]
  /\ UNCHANGED <<videoUrl, error, lastVideo>>

hasSelectedApiKeyReturned(k, reply) ==
  /\ microtasksDrained
  /\ k \in 1..Len(videoJobs)
  /\ videoJobs[k].pc = "hasKey"
  /\ IF reply.kind = "throws" THEN catchVideoError(k, reply.err)
     ELSE IF reply.value THEN startStoryVideo(k)
     ELSE /\ videoJobs' = [videoJobs EXCEPT ![k].pc = "openSelectKey"]
          /\ UNCHANGED <<videoUrl, videoGenerationStatus, error, lastVideo>>
  /\ videoFrame

openSelectKeyReturned(k, reply) ==
  /\ microtasksDrained
  /\ k \in 1..Len(videoJobs)
  /\ videoJobs[k].pc = "openSelectKey"
  /\ IF reply.kind = "throws" THEN catchVideoError(k, reply.err)
     ELSE startStoryVideo(k)
  /\ videoFrame

\* generateStoryVideo from the test of while (!operation.done) on, and the
\* rest of handleGenerateVideo when it returns.
afterOperation(k, operation, waiting) ==
  IF ~operation.done
    THEN /\ videoJobs' = [videoJobs EXCEPT ![k].pc = "timer"]
         /\ videoGenerationStatus' = waiting
         /\ UNCHANGED <<videoUrl, error, lastVideo>>
  ELSE IF operation.error # NULL
    THEN catchVideoError(
           k, ErrorObject("Erro na operacao de video: " \o operation.error))
  ELSE IF operation.uri = NULL
    THEN catchVideoError(
           k, ErrorObject("Nao foi possivel obter o link de download do video."))
  ELSE /\ videoUrl' = operation.uri \o "&key=" \o ApiKey
       /\ videoGenerationStatus' =
            Status(FALSE, "Seu desenho animado esta pronto!")
       /\ videoJobs' = RemoveAt(videoJobs, k)
       /\ lastVideo' =
            [how |-> "ok", reauthorized |-> FALSE, notFound |-> FALSE,
             operation |-> operation]
       /\ UNCHANGED error

generateVideosReturned(k, reply) ==
  /\ microtasksDrained
  /\ k \in 1..Len(videoJobs)
  /\ videoJobs[k].pc = "generateVideos"
  /\ IF reply.kind = "throws" THEN catchVideoError(k, reply.err)
     ELSE afterOperation(
            k, reply.operation,
            Status(TRUE,
                   "A geracao do video comecou. Isso pode levar alguns minutos..."))
  /\ videoFrame

\* The 10 s timer of the poll loop fires: onProgress, then the poll request.
pollTimerFired(k) ==
  /\ microtasksDrained
  /\ k \in 1..Len(videoJobs)
  /\ videoJobs[k].pc = "timer"
  /\ videoGenerationStatus' =
       Status(TRUE, "Verificando o status da geracao do video...")
  /\ videoJobs' = [videoJobs EXCEPT ![k].pc = "poll"]
  /\ UNCHANGED <<videoUrl, error, lastVideo>>
  /\ videoFrame

getVideosOperationReturned(k, reply) ==
  /\ microtasksDrained
  /\ k \in 1..Len(videoJobs)
  /\ videoJobs[k].pc = "poll"
  /\ IF reply.kind = "throws" THEN catchVideoError(k, reply.err)
     ELSE afterOperation(k, reply.operation, videoGenerationStatus)
  /\ videoFrame

(***************************************************************************)
(* StoryGeneratorForm.                                                     *)
(***************************************************************************)

\* max="50" of the numPages input.
NumPagesMax == 50

\* What the plot field may hold.
PlotTexts == { << >>, <<" ">>, <<"Q">>, <<" ", "Q", " ">> }

\* What the numPages field may hold after a keystroke.
NumPagesTexts ==
  { << >>, <<"a">>, <<"0">>, <<"-", "2">>, <<"1">>, <<"3", ".", "7">>,
    <<"5", "0">>, <<"5", "1">>, <<"2", "e", "3">> }

\* onChange of the plot field.
plotChanged(value) ==
  /\ microtasksDrained
  /\ plot' = value
  /\ UNCHANGED <<appVars, pipelineVars, viewVars, audioVars, replacedPages,
                 regens, videoJobs, historyVars, lastNav, lastVideo,
                 formNumPages>>

\* Math.max(1, parseInt(e.target.value, 10)) || 1
coercedNumPages(value) == orElse(mathMax(Number(1), parseInt(value)), 1)

\* onChange of the numPages field; disabled while isLoading.
numPagesChanged(value) ==
  /\ microtasksDrained
  /\ ~generationStatus.isLoading
  /\ formNumPages' = coercedNumPages(value)
  /\ UNCHANGED <<appVars, pipelineVars, viewVars, audioVars, replacedPages,
                 regens, videoJobs, historyVars, lastNav, lastVideo, plot>>

\* Variant: the field has no max attribute.
numPagesValidNoMax(n) == 1 <= n

\* The browser submits the form only when the field, which shows
\* numPages, satisfies required, min="1" and max="50".
numPagesValid(n) == 1 <= n /\ n <= NumPagesMax

\* The submit button (disabled while isLoading or with a blank plot) and
\* handleSubmit, which calls onGenerate = handleGenerateStory.
handleSubmit ==
  /\ trim(plot) # << >>
  /\ numPagesValid(formNumPages)
  /\ formNumPages > 0
  /\ handleGenerateStory(formNumPages)

(***************************************************************************)
(* The program.                                                            *)
(***************************************************************************)

\* The titles the form of the title-first revision submits.
FormTitles == { <<"A">>, <<"A", " ", "B">> }

StructureFirstMessage == "Criando a estrutura da sua historia..."

\* handleGenerateStory of the title-first revision, up to its first await:
\* the title comes from the form and the first call is generateStoryContent.
handleGenerateStoryTitleFirst(title, n) ==
  /\ microtasksDrained
  /\ ~submitDisabled
  /\ generationStatus' = Status(TRUE, StructureFirstMessage)
  /\ error' = NULL
  /\ storyPages' = << >>
  /\ storyTitle' = title
  /\ videoUrl' = NULL
  /\ videoGenerationStatus' = IdleStatus
  /\ pc' = "structure"
  /\ numPages' = n
  /\ pagesWithPrompts' = << >>
  /\ generatedPages' = << >>
  /\ imageUrl' = NULL
  /\ pipelineCalls' = pipelineCalls \cup {StoryCall}
  /\ currentViewIndex' = 0
  /\ isRegeneratingAudio' = FALSE
  /\ isRegeneratingImage' = NoPage
  /\ unmountAudio
  /\ replacedPages' = {}
  /\ regens' = unmountedRegens(regens)
  /\ videoJobs' = previousStoryJobs(videoJobs)
  /\ storyReply' = NoReply
  /\ statusLog' = <<Status(TRUE, StructureFirstMessage)>>
  /\ outcome' = "running"
  /\ failedCall' = NoCall
  /\ lastNav' = NoNav
  /\ lastVideo' = NoVideo
  /\ UNCHANGED formVars

\* await generateStoryContent returns or throws, in the title-first
\* revision.  The loop that follows is the one of the current revision but
\* for the wording of its status messages.
storyContentReturnedTitleFirst(reply) ==
  /\ microtasksDrained
  /\ pc = "structure"
  /\ StoryCall \in pipelineCalls
  /\ storyReply' = reply
  /\ LET r == generateStoryContentTitleFirst(reply) IN
       IF r.ok
         THEN /\ pagesWithPrompts' = pagesWithPromptsOf(r.value)
              /\ generatedPages' = << >>
              /\ enterLoop(1, pagesWithPromptsOf(r.value),
                           pipelineCalls \ {StoryCall})
              /\ UNCHANGED <<error, imageUrl, failedCall>>
         ELSE /\ catchStoryError(StoryCall)
              /\ UNCHANGED <<pagesWithPrompts, generatedPages>>
  /\ UNCHANGED <<storyPages, storyTitle, videoUrl, videoGenerationStatus,
                 numPages, viewVars, audioVars, replacedPages, regens,
                 videoJobs, lastNav, lastVideo,
                 formVars>>

\* The generation pipeline of the title-first revision.
NextTitleFirst ==
  \/ \E title \in FormTitles, n \in 1..MaxPages :
       handleGenerateStoryTitleFirst(title, n)
  \/ \E reply \in StoryReplies : storyContentReturnedTitleFirst(reply)
  \/ \E reply \in OneImageReplies : imageReturned(reply)
  \/ \E reply \in OneSpeechReplies : speechReturned(reply)

SpecTitleFirst == Init /\ [][NextTitleFirst]_vars

\* The generation pipeline, the provider answering from the given sets.
StoryActions(images, narrations) ==
  \/ \E n \in 1..MaxPages : handleGenerateStory(n)
  \/ \E reply \in TitleReplies : titleReturned(reply)
  \/ \E reply \in StoryReplies : storyContentReturned(reply)
  \/ \E reply \in images : imageReturned(reply)
  \/ \E reply \in narrations : speechReturned(reply)

RegenActions(images, narrations) ==
  \/ handleRegenerateImage
  \/ handleRegenerateNarration
  \/ handleVoiceChange
  \/ \E k \in 1..MaxRegens, reply \in images : imageRegenerated(k, reply)
  \/ \E k \in 1..MaxRegens, reply \in narrations :
       narrationRegenerated(k, reply)

NavActions(track) ==
  \/ goToNext(track)
  \/ goToPrevious(track)

\* The resumptions of the calls of handleGenerateVideo, at most limit of
\* them awaiting at once.
VideoResumptions(limit) ==
  \/ \E k \in 1..limit, reply \in HasKeyReplies :
       hasSelectedApiKeyReturned(k, reply)
  \/ \E k \in 1..limit, reply \in OpenSelectKeyReplies :
       openSelectKeyReturned(k, reply)
  \/ \E k \in 1..limit, reply \in OperationReplies :
       generateVideosReturned(k, reply)
  \/ \E k \in 1..limit : pollTimerFired(k)
  \/ \E k \in 1..limit, reply \in OperationReplies :
       getVideosOperationReturned(k, reply)

VideoActions ==
  \/ handleGenerateVideo
  \/ VideoResumptions(MaxVideoJobs)

\* generateCoverAudio answers like the other narration calls.
CoverAudioReplies == SpeechRepliesOf({ "Q2FwYQ" })

AudioActions ==
  \/ handlePlayPause
  \/ handleGenerateCoverAudio
  \/ \E reply \in CoverAudioReplies : coverAudioReturned(reply)
  \/ handlePlayPauseCoverAudio
  \/ \E id \in 1..MaxSources : playbackEnds(id)
  \/ \E id \in 1..MaxSources : onended(id)

\* Generation, regeneration and navigation.
Next ==
  \/ decodeResolved
  \/ StoryActions(OneImageReplies, OneSpeechReplies)
  \/ RegenActions(OneImageReplies, OneSpeechReplies)
  \/ NavActions(FALSE)

Spec == Init /\ [][Next]_vars

\* The same with every payload of the provider.
NextPayloads ==
  \/ decodeResolved
  \/ StoryActions(ImageReplies, SpeechReplies)
  \/ RegenActions(ImageReplies, SpeechReplies)
  \/ NavActions(FALSE)

SpecPayloads == Init /\ [][NextPayloads]_vars

\* The viewer's cursor: generation, navigation with its history, video.
NextView ==
  \/ decodeResolved
  \/ StoryActions(OneImageReplies, OneSpeechReplies)
  \/ NavActions(TRUE)
  \/ jumpToCover(TRUE)
  \/ VideoActions

SpecView == Init /\ [][NextView]_vars

\* A narration other than the one the pipeline gets, for regenerations.
OtherSpeechReplies == SpeechRepliesOf({ "AAAAAA" })

\* An image other than the one the pipeline gets, for regenerations.
OtherImageReplies ==
  ImageRepliesOf({ [mimeType |-> "image/jpeg", data |-> "_9j_4AAQ"] })

\* Regenerations of an image and of a narration that overlap.
NextOverlap ==
  \/ decodeResolved
  \/ StoryActions(OneImageReplies, OneSpeechReplies)
  \/ NavActions(FALSE)
  \/ handleRegenerateImageUpTo(MaxOverlap)
  \/ handleRegenerateNarrationUpTo(MaxOverlap)
  \/ \E k \in 1..MaxOverlap, reply \in OtherImageReplies :
       imageRegenerated(k, reply)
  \/ \E k \in 1..MaxOverlap, reply \in OtherSpeechReplies :
       narrationRegenerated(k, reply)

SpecOverlap == Init /\ [][NextOverlap]_vars

\* The narration of the pages: generation, navigation, regeneration of the
\* narration with another payload, playback of the pages.
NextNarration ==
  \/ decodeResolved
  \/ StoryActions(OneImageReplies, OneSpeechReplies)
  \/ handleRegenerateNarration
  \/ \E k \in 1..MaxRegens, reply \in OtherSpeechReplies :
       narrationRegenerated(k, reply)
  \/ NavActions(FALSE)
  \/ handlePlayPause
  \/ \E id \in 1..MaxSources : playbackEnds(id)
  \/ \E id \in 1..MaxSources : onended(id)

SpecNarration == Init /\ [][NextNarration]_vars

\* The answers to a regeneration that make generateImage and generateSpeech
\* throw: the request is rejected, or the response has no image, or no audio.
FailedImageReplies == { Rejected, [kind |-> "noImage"] }

FailedSpeechReplies == { Rejected, [kind |-> "audio", data |-> ""] }

\* Stories whose regenerations all fail.
NextRegenFails ==
  \/ decodeResolved
  \/ StoryActions(OneImageReplies, OneSpeechReplies)
  \/ RegenActions(FailedImageReplies, FailedSpeechReplies)
  \/ NavActions(FALSE)

SpecRegenFails == Init /\ [][NextRegenFails]_vars

\* Playback: generation, navigation, and the audio of the pages and of the
\* cover.
NextPlayback ==
  \/ decodeResolved
  \/ StoryActions(OneImageReplies, OneSpeechReplies)
  \/ NavActions(FALSE)
  \/ AudioActions

SpecPlayback == Init /\ [][NextPlayback]_vars

\* The narration of the pages alone: generation, navigation, the play
\* button of the text view and the events of its source nodes.
NextPagePlayback ==
  \/ decodeResolved
  \/ StoryActions(OneImageReplies, OneSpeechReplies)
  \/ NavActions(FALSE)
  \/ handlePlayPause
  \/ \E id \in 1..MaxSources : playbackEnds(id)
  \/ \E id \in 1..MaxSources : onended(id)

SpecPagePlayback == Init /\ [][NextPagePlayback]_vars

\* The browser runs a queued promise reaction, and delivers the ended
\* event of a node that has stopped.
SpecPagePlaybackFair ==
  /\ SpecPagePlayback
  /\ WF_vars(decodeResolved)
  /\ \A id \in 1..MaxSources : WF_vars(onended(id))

\* Generation, the title call answering with any text.
NextTitle ==
  \/ \E n \in 1..MaxPages : handleGenerateStory(n)
  \/ \E reply \in AnyTitleReplies : titleReturned(reply)
  \/ \E reply \in StoryReplies : storyContentReturned(reply)
  \/ \E reply \in OneImageReplies : imageReturned(reply)
  \/ \E reply \in OneSpeechReplies : speechReturned(reply)

SpecTitle == Init /\ [][NextTitle]_vars

\* The form and the generation it starts.
NextForm ==
  \/ \E value \in PlotTexts : plotChanged(value)
  \/ \E value \in NumPagesTexts : numPagesChanged(value)
  \/ handleSubmit
  \/ \E reply \in TitleReplies : titleReturned(reply)
  \/ \E reply \in StoryReplies : storyContentReturned(reply)
  \/ \E reply \in OneImageReplies : imageReturned(reply)
  \/ \E reply \in OneSpeechReplies : speechReturned(reply)

SpecForm == Init /\ [][NextForm]_vars

\* Generation and the video.
NextVideo ==
  \/ StoryActions(OneImageReplies, OneSpeechReplies)
  \/ VideoActions

SpecVideo == Init /\ [][NextVideo]_vars

\* The video button clicked while calls of handleGenerateVideo are awaiting.
NextVideoOverlap ==
  \/ StoryActions(OneImageReplies, OneSpeechReplies)
  \/ handleGenerateVideoUpTo(MaxOverlap)
  \/ VideoResumptions(MaxOverlap)

SpecVideoOverlap == Init /\ [][NextVideoOverlap]_vars

\* The answers to a poll that end the loop: the operation is done, or the
\* request fails.
FinalOperationReplies ==
  { reply \in OperationReplies :
      reply.kind = "throws" \/ reply.operation.done }

\* Every promise a call of handleGenerateVideo awaits is settled and the
\* timer of the loop fires; the provider does not answer "not done" to
\* every poll of a job for ever.
SpecVideoFair ==
  /\ SpecVideo
  /\ \A k \in 1..MaxVideoJobs :
       /\ WF_vars(\E reply \in HasKeyReplies :
                    hasSelectedApiKeyReturned(k, reply))
       /\ WF_vars(\E reply \in OpenSelectKeyReplies :
                    openSelectKeyReturned(k, reply))
       /\ WF_vars(\E reply \in OperationReplies :
                    generateVideosReturned(k, reply))
       /\ WF_vars(pollTimerFired(k))
       /\ SF_vars(\E reply \in FinalOperationReplies :
                    getVideosOperationReturned(k, reply))

\* Every operation that sets a busy flag, on stories of one page.
NextBusy ==
  \/ decodeResolved
  \/ handleGenerateStory(1)
  \/ \E reply \in TitleReplies : titleReturned(reply)
  \/ \E reply \in StoryReplies : storyContentReturned(reply)
  \/ \E reply \in OneImageReplies : imageReturned(reply)
  \/ \E reply \in OneSpeechReplies : speechReturned(reply)
  \/ RegenActions(OneImageReplies, OneSpeechReplies)
  \/ NavActions(FALSE)
  \/ VideoActions
  \/ handleGenerateCoverAudio
  \/ \E reply \in CoverAudioReplies : coverAudioReturned(reply)

SpecBusy == Init /\ [][NextBusy]_vars

\* The call handleGenerateStory awaits returns or throws.
pipelineResumes ==
  \/ \E reply \in TitleReplies : titleReturned(reply)
  \/ \E reply \in StoryReplies : storyContentReturned(reply)
  \/ \E reply \in OneImageReplies : imageReturned(reply)
  \/ \E reply \in OneSpeechReplies : speechReturned(reply)

\* The call the k-th regeneration awaits returns or throws.
regenResumes(k) ==
  \/ \E reply \in OneImageReplies : imageRegenerated(k, reply)
  \/ \E reply \in OneSpeechReplies : narrationRegenerated(k, reply)

\* The call the k-th handleGenerateVideo awaits returns or throws, or its
\* timer fires.
videoResumes(k) ==
  \/ \E reply \in HasKeyReplies : hasSelectedApiKeyReturned(k, reply)
  \/ \E reply \in OpenSelectKeyReplies : openSelectKeyReturned(k, reply)
  \/ \E reply \in OperationReplies : generateVideosReturned(k, reply)
  \/ pollTimerFired(k)
  \/ \E reply \in OperationReplies : getVideosOperationReturned(k, reply)

\* Each remote call returns or throws and its caller resumes.  A caller
\* waits while a promise reaction is queued, so its step is not enabled
\* all the time: strong fairness.
SpecBusyFair ==
  /\ SpecBusy
  /\ WF_vars(decodeResolved)
  /\ SF_vars(pipelineResumes)
  /\ SF_vars(\E reply \in CoverAudioReplies : coverAudioReturned(reply))
  /\ \A k \in 1..MaxRegens : SF_vars(regenResumes(k))
  /\ \A k \in 1..MaxVideoJobs : SF_vars(videoResumes(k))

\* The same with the video, which brings the jump to the cover.
NextPlaybackVideo ==
  \/ NextPlayback
  \/ jumpToCover(FALSE)
  \/ VideoActions

SpecPlaybackVideo == Init /\ [][NextPlaybackVideo]_vars

(***************************************************************************)
(* Properties.                                                             *)
(***************************************************************************)

PageNumbersInOrder(pages) == \A k \in 1..Len(pages) : pages[k].pageNumber = k

\* C1: when a generation of N >= 1 pages has completed without error, the
\* displayed list has exactly N entries and the entry at position i has
\* pageNumber i.
C1_CompletedHasNPagesInOrder ==
  outcome = "completed" =>
    /\ numPages >= 1
    /\ Len(storyPages) = numPages
    /\ PageNumbersInOrder(storyPages)

C1_Witness ==
  outcome = "completed" /\ numPages > 1 /\ Len(storyPages) = numPages

\* Data URIs with a media type and a non-empty base64 payload.
WellFormedDataUris ==
  { "data:" \o m \o ";base64," \o d :
      m \in {"image/png", "image/jpeg"}, d \in {"iVBORw0KGgo", "_9j_4AAQ"} }

\* C2: every page of a completed generation has non-empty text, a
\* well-formed data-URI image reference and non-empty audio data, whatever
\* the provider returned.
C2_CompletedPagesAreFull ==
  outcome = "completed" =>
    \A k \in 1..Len(storyPages) :
      /\ storyPages[k].text # ""
      /\ storyPages[k].imageUrl \in WellFormedDataUris
      /\ storyPages[k].audioData # ""

\* The structured response as the claim describes the bad ones: not an
\* array, an empty array, or a count different from the requested one.
BadStoryResponse ==
  /\ storyReply.kind = "json"
  /\ \/ ~storyReply.parsed.isArray
     \/ Len(storyReply.parsed.items) = 0
     \/ Len(storyReply.parsed.items) # numPages

\* C3: after a structured response with a wrong number of items, or that is
\* not a non-empty array, the pipeline has aborted: no call of the pipeline
\* is in flight and none is awaited, isLoading is false, error is not null
\* and the displayed list is empty.
C3_BadStructureAborts ==
  BadStoryResponse =>
    /\ outcome = "failed"
    /\ pc = "idle"
    /\ pipelineCalls = {}
    /\ ~generationStatus.isLoading
    /\ error # NULL
    /\ storyPages = << >>

C3_Witness ==
  /\ BadStoryResponse
  /\ storyReply.parsed.isArray
  /\ Len(storyReply.parsed.items) > 0
  /\ outcome = "failed"

\* Pages displayed when the call fails: those before the failing page.
PagesBefore(call) == IF call.page = 0 THEN 0 ELSE call.page - 1

\* C4: when a remote call of the pipeline fails, the step that handles it
\* leaves no call of the pipeline in flight, ends the handler, sets
\* isLoading to false and error to the generic message, and leaves the
\* displayed list as it was: the pages 1..k-1 (none for the title or the
\* structure call).  Afterwards a call of the pipeline is issued only by the
\* start of a new generation.
C4_FailureAborts ==
  /\ [][ (outcome = "running" /\ outcome' = "failed") =>
           /\ failedCall' \in pipelineCalls
           /\ pipelineCalls' = {}
           /\ pc' = "idle"
           /\ ~generationStatus'.isLoading
           /\ error' = StoryError
           /\ storyPages' = storyPages
           /\ Len(storyPages) = PagesBefore(failedCall')
           /\ PageNumbersInOrder(storyPages) ]_vars
  /\ [][ (outcome = "failed" /\ pipelineCalls' # {}) =>
           /\ outcome' = "running"
           /\ pipelineCalls' = {TitleCall}
           /\ storyPages' = << >> ]_vars

C4_Witness ==
  /\ outcome = "failed"
  /\ failedCall = SpeechCall(2)
  /\ Len(storyPages) = 1
  /\ error = StoryError

\* The messages as the steps are named: title, structure, then image and
\* narration of each page in turn.
StepMessage(call, n) ==
  CASE call.api = "generateTitleFromPlot" -> "Invocando um titulo encantado..."
    [] call.api = "generateStoryContent" -> "Tecendo os fios da sua aventura..."
    [] call.api = "generateImage" ->
         "Pintando a magia na pagina " \o Num(call.page) \o " de " \o Num(n) \o "..."
    [] call.api = "generateSpeech" ->
         "Dando voz a historia na pagina " \o Num(call.page) \o " de " \o Num(n) \o "..."

ExpectedCalls(n) ==
  [ j \in 1..(2 + 2 * n) |->
      IF j = 1 THEN TitleCall
      ELSE IF j = 2 THEN StoryCall
      ELSE IF j % 2 = 1 THEN ImageCall((j - 1) \div 2)
      ELSE SpeechCall((j - 2) \div 2) ]

ExpectedMessages(n) ==
  [ j \in 1..(2 + 2 * n) |-> StepMessage(ExpectedCalls(n)[j], n) ]

LoadingMessages(log) ==
  LET loading == SelectSeq(log, LAMBDA st : st.isLoading)
  IN  [ j \in 1..Len(loading) |-> loading[j].message ]

\* C5: a completed generation of N pages has set, in this order, the title
\* message, the structure message and, for i = 1..N, the image message and
\* the narration message of page i; and while a call of the pipeline is in
\* flight, the last status set is isLoading = true with the message of that
\* step.
C5_StatusBeforeEachCall ==
  /\ outcome = "completed" =>
       LoadingMessages(statusLog) = ExpectedMessages(numPages)
  /\ \A call \in pipelineCalls :
       /\ generationStatus = Status(TRUE, StepMessage(call, numPages))
       /\ statusLog[Len(statusLog)] = generationStatus

C5_Witness ==
  /\ outcome = "completed"
  /\ numPages = 2
  /\ Len(LoadingMessages(statusLog)) = 6

\* C6: at most one call of the pipeline is in flight; the image of page i
\* is requested only once the structure has returned and pages 1..i-1 are
\* generated and published; the narration of page i only once its image has
\* returned.
C6_OneCallAtATime ==
  /\ Cardinality(pipelineCalls) <= 1
  /\ \A call \in pipelineCalls :
       /\ call.api = "generateImage" =>
            /\ storyReply.kind = "json"
            /\ Len(pagesWithPrompts) = numPages
            /\ Len(generatedPages) = call.page - 1
            /\ Len(storyPages) = call.page - 1
       /\ call.api = "generateSpeech" =>
            /\ imageUrl # NULL
            /\ Len(generatedPages) = call.page - 1

C6_Witness == ImageCall(2) \in pipelineCalls /\ Len(storyPages) = 1

\* A step of the running generation or after it, not the start of a new one.
SameGeneration == outcome = "running" \/ outcome' # "running"

\* C7: during one generation the displayed list is append-only: each
\* publication extends the list displayed before it by exactly one page at
\* the end, the list never gets shorter, and its pages stay numbered in
\* order, until the next generation starts.
C7_AppendOnly ==
  [][ SameGeneration =>
        /\ Len(storyPages') >= Len(storyPages)
        /\ PageNumbersInOrder(storyPages')
        /\ Len(generatedPages') > Len(generatedPages) =>
             storyPages' =
               Append(storyPages, generatedPages'[Len(generatedPages')]) ]_vars

\* C8: a regeneration that completes (handleRegenerateImage,
\* handleRegenerateNarration, handleVoiceChange, through handleUpdatePage)
\* leaves the length and the order of the list, the pageNumber, text and
\* imagePrompt of every page, and every field of every other page as they
\* were.
C8_RegenerationFrame ==
  [][ Len(regens') < Len(regens) =>
        \E k \in 1..Len(regens) :
          /\ regens' = RemoveAt(regens, k)
          /\ Len(storyPages') = Len(storyPages)
          /\ \A j \in 1..Len(storyPages) :
               /\ storyPages'[j].pageNumber = storyPages[j].pageNumber
               /\ storyPages'[j].text = storyPages[j].text
               /\ storyPages'[j].imagePrompt = storyPages[j].imagePrompt
               /\ storyPages[j].pageNumber # regens[k].page.pageNumber =>
                    storyPages'[j] = storyPages[j] ]_vars

\* C9: while the view is mounted the cursor is within 0 .. 2 * pages.length.
C9_CursorInRange ==
  Len(storyPages) > 0 =>
    /\ currentViewIndex >= 0
    /\ currentViewIndex < 1 + 2 * Len(storyPages)

C9_Witness ==
  /\ Len(storyPages) > 1
  /\ currentViewIndex = 2 * Len(storyPages)
  /\ pc = "idle"
  /\ videoUrl # NULL

\* C10: with V = 1 + 2 * pages.length, goToNext takes the cursor i to
\* (i + 1) mod V and goToPrevious to (i - 1) mod V; and a next right after a
\* previous, or a previous right after a next, with the same V, takes the
\* cursor back to where the first of the two started.
C10_NextPreviousModulo ==
  [][ LET V == 1 + 2 * Len(storyPages)
          i == currentViewIndex
      IN
      /\ (lastNav' # lastNav /\ lastNav'.op = "next") =>
           /\ currentViewIndex' = (i + 1) % V
           /\ i = V - 1 => currentViewIndex' = 0
           /\ (lastNav.op = "prev" /\ lastNav.views = V) =>
                currentViewIndex' = lastNav.from
      /\ (lastNav' # lastNav /\ lastNav'.op = "prev") =>
           /\ currentViewIndex' = (i - 1) % V
           /\ i = 0 => currentViewIndex' = V - 1
           /\ (lastNav.op = "next" /\ lastNav.views = V) =>
                currentViewIndex' = lastNav.from ]_vars

C10_Witness ==
  /\ lastNav.op = "prev"
  /\ lastNav.from = 0
  /\ Len(storyPages) > 1
  /\ currentViewIndex = 2 * Len(storyPages)

\* C11: for every cursor of the mounted view: cursor 0 is the cover; an odd
\* cursor i is the image view of the page numbered ceil(i/2); an even cursor
\* i > 0 is the text view of the page numbered i/2; exactly one of isCover,
\* isImageView, isTextView holds; and off the cover the selected page is
\* not null.
C11_CursorToView ==
  mounted =>
    \A i \in 0 .. totalViews(storyPages) - 1 :
      /\ Cardinality({ b \in { <<1, isCoverAt(i)>>, <<2, isImageViewAt(i)>>,
                               <<3, isTextViewAt(i)>> } : b[2] }) = 1
      /\ i = 0 => isCoverAt(i) /\ pageAt(storyPages, i) = NoPageData
      /\ (i % 2 = 1) =>
           /\ isImageViewAt(i)
           /\ pageAt(storyPages, i) # NoPageData
           /\ pageAt(storyPages, i).pageNumber = (i + 1) \div 2
      /\ (i > 0 /\ i % 2 = 0) =>
           /\ isTextViewAt(i)
           /\ pageAt(storyPages, i) # NoPageData
           /\ pageAt(storyPages, i).pageNumber = i \div 2

C11_Witness ==
  /\ Len(storyPages) = 2
  /\ currentViewIndex = 3
  /\ isImageViewAt(currentViewIndex)
  /\ page.pageNumber = 2

\* C12: whenever a source of page narration is started, the cursor is on a
\* text view and the buffer handed to the source is the one decoded from
\* the audioData the displayed page has at that moment, whatever cursor
\* changes and page updates came before.
C12_PlaysCurrentNarration ==
  [][ \A id \in 1..MaxSources :
        ( /\ sources[id].state = "free"
          /\ sources'[id].state = "playing"
          /\ sources'[id].kind = "page" ) =>
          /\ isTextViewAt(currentViewIndex)
          /\ page # NoPageData
          /\ sources'[id].view = currentViewIndex
          /\ sources'[id].buffer = decodeAudioData(page.audioData) ]_vars

C12_Witness ==
  /\ isTextViewAt(currentViewIndex)
  /\ page # NoPageData
  /\ page.audioData = "AAAAAA"
  /\ isPlaying
  /\ sourceNodeRef # NoSource
  /\ sources[sourceNodeRef].state = "playing"
  /\ sources[sourceNodeRef].buffer = decodeAudioData("AAAAAA")

\* Nodes that were started and have neither been stopped nor ended.
activeSources == { id \in 1..MaxSources : sources[id].state = "playing" }

\* C13: at most one audio source (page narration or cover narration) is
\* started and not yet stopped or ended.
C13_OneActiveSource == Cardinality(activeSources) <= 1

\* No source of page narration is started and not yet stopped or ended.
noPageSourceActive ==
  \A id \in activeSources : sources[id].kind # "page"

\* C14: a cursor transition (next, previous, jump to cover) stops and
\* releases the page narration: after the step no page source is active,
\* sourceNodeRef is null, the decoded buffer is cleared and isPlaying is
\* false.
C14_TransitionStopsNarration ==
  [][ (storyPages' = storyPages /\ currentViewIndex' # currentViewIndex) =>
        /\ noPageSourceActive'
        /\ sourceNodeRef' = NoSource
        /\ audioBufferRef' = NoBuffer
        /\ ~isPlaying' ]_vars

\* C15: when a regeneration replaces the page displayed in a text view, any
\* playback of the old narration is stopped, the old buffer is dropped and
\* the new audioData is being decoded; and every playback started in a text
\* view uses the buffer decoded from the audioData the page has then.
C15_RederivesBuffer ==
  [][ /\ ( /\ mounted
           /\ isTextViewAt(currentViewIndex)
           /\ Len(regens') < Len(regens)
           /\ Len(storyPages') = Len(storyPages)
           /\ currentViewIndex' = currentViewIndex
           /\ page' # page ) =>
           /\ noPageSourceActive'
           /\ ~isPlaying'
           /\ audioBufferRef' = NoBuffer
           /\ microtasks' =
                <<Reaction("page", decodeAudioData(page'.audioData))>>
      /\ (~isPlaying /\ isPlaying') =>
           sources'[sourceNodeRef'].buffer = decodeAudioData(page.audioData)
    ]_vars

\* C16: playback of a page starts only by the toggle pressed in a text
\* view whose buffer is decoded and while paused, and then plays that
\* buffer with isPlaying true; the toggle pressed while isPlaying stops the
\* source the ref holds, and isPlaying then becomes false eventually; when
\* the ended event of a page source is delivered isPlaying is false and the
\* ref no longer holds that source.
C16_PlayPauseToggle ==
  /\ [][ /\ ( \/ ~isPlaying /\ isPlaying'
              \/ \E id \in 1..MaxSources :
                   /\ sources[id].state = "free"
                   /\ sources'[id].state = "playing"
                   /\ sources'[id].kind = "page" ) =>
              /\ mounted
              /\ isTextViewAt(currentViewIndex)
              /\ audioBufferRef # NoBuffer
              /\ ~isPlaying
              /\ isPlaying'
              /\ sourceNodeRef' # NoSource
              /\ sources'[sourceNodeRef'] =
                   startedSource("page", audioBufferRef, currentViewIndex)
         /\ (handlePlayPause /\ isPlaying /\ audioBufferRef # NoBuffer) =>
              /\ sourceNodeRef # NoSource
              /\ sources'[sourceNodeRef].state = "ended"
         /\ \A id \in 1..MaxSources :
              ( /\ sources[id].state = "ended"
                /\ sources[id].kind = "page"
                /\ sources'[id].state = "free" ) =>
                /\ ~isPlaying'
                /\ sourceNodeRef' # id ]_vars
  /\ ( /\ isPlaying
       /\ sourceNodeRef # NoSource
       /\ sources[sourceNodeRef].state = "ended" ) ~> ~isPlaying

C16_Witness ==
  /\ isPlaying
  /\ sourceNodeRef # NoSource
  /\ sources[sourceNodeRef].state = "ended"
  /\ sources[sourceNodeRef].kind = "page"

\* C17: an active source of cover narration implies the cursor is on the
\* cover, and an active source of the narration of a page implies the
\* cursor is on the text view of that page.
C17_SourceMatchesView ==
  \A id \in activeSources :
    /\ sources[id].kind = "cover" => isCoverAt(currentViewIndex)
    /\ sources[id].kind = "page" => currentViewIndex = sources[id].view

\* C18: when the attempt at a video ends in a failure, the failure being
\* "Requested entity was not found" shows the API-key message and calls
\* openSelectKey, and any other failure shows the generic message and does
\* not call openSelectKey.
C18_EntityNotFoundReauthorizes ==
  [][ (lastVideo' # lastVideo /\ lastVideo'.how = "error") =>
        IF lastVideo'.notFound
          THEN error' = VideoKeyError /\ lastVideo'.reauthorized
          ELSE error' = VideoError /\ ~lastVideo'.reauthorized ]_vars

\* The call of handleGenerateVideo numbered id has not returned.
videoJobRunning(id) == \E k \in 1..Len(videoJobs) : videoJobs[k].id = id

\* C19: every call of handleGenerateVideo returns; when it returns the
\* loading indicator is off and either videoUrl or error is set; each time
\* the timer of the loop fires a status message is shown with the
\* indicator on; and videoUrl is set only from an operation that reported
\* done, without error and with a download link.
C19_VideoPollingEnds ==
  /\ \A id \in 1..MaxVideoJobs :
       videoJobRunning(id) ~> ~videoJobRunning(id)
  /\ [][ /\ \A id \in 1..MaxVideoJobs :
              (videoJobRunning(id) /\ ~videoJobRunning(id)') =>
                /\ ~videoGenerationStatus'.isLoading
                /\ videoUrl' # NULL \/ error' # NULL
         /\ \A k \in 1..Len(videoJobs) :
              ( /\ videoJobs[k].pc = "timer"
                /\ Len(videoJobs') = Len(videoJobs)
                /\ videoJobs'[k].pc = "poll" ) =>
                videoGenerationStatus' =
                  Status(TRUE, "Verificando o status da geracao do video...")
         /\ (videoUrl' # videoUrl /\ videoUrl' # NULL) =>
              /\ lastVideo'.how = "ok"
              /\ lastVideo'.operation.done
              /\ lastVideo'.operation.error = NULL
              /\ lastVideo'.operation.uri # NULL
              /\ videoUrl' = lastVideo'.operation.uri \o "&key=" \o ApiKey
      ]_vars

C19_Witness ==
  /\ videoJobs = << >>
  /\ lastVideo.how = "ok"
  /\ videoUrl # NULL
  /\ ~videoGenerationStatus.isLoading

\* C20: once the title step is over and the structure step is awaited,
\* the stored title is not empty and holds no double quote.
C20_TitleNonEmptyNoQuotes ==
  pc = "structure" =>
    /\ storyTitle # << >>
    /\ \A i \in 1..Len(storyTitle) : storyTitle[i] # "\""

\* Each busy flag is at its idle value again and again.
busyFlagsClear ==
  /\ []<>~generationStatus.isLoading
  /\ []<>~videoGenerationStatus.isLoading
  /\ []<>~isRegeneratingAudio
  /\ []<>(isRegeneratingImage = NoPage)
  /\ []<>~isGeneratingCoverAudio

\* The provider does not answer "not done" to the polls of a video job
\* for ever.
noJobPollsForEver ==
  \A k \in 1..MaxVideoJobs :
    []<>~(k \in 1..Len(videoJobs) /\ videoJobs[k].pc \in {"timer", "poll"})

\* C21 as stated: when every remote call returns or throws, each of the
\* five busy flags returns to its idle value.
C21_BusyFlagsClearAsStated == busyFlagsClear

\* C21: when every remote call returns or throws and no video job is
\* reported "not done" for ever, each of generationStatus.isLoading,
\* videoGenerationStatus.isLoading, isRegeneratingAudio,
\* isRegeneratingImage and isGeneratingCoverAudio returns to its idle value.
C21_BusyFlagsClear == noJobPollsForEver => busyFlagsClear

C21_Witness ==
  /\ lastVideo.how = "error"
  /\ outcome = "completed"
  /\ videoJobs = << >>
  /\ regens = << >>
  /\ ~generationStatus.isLoading
  /\ ~videoGenerationStatus.isLoading
  /\ ~isRegeneratingAudio
  /\ isRegeneratingImage = NoPage
  /\ ~isGeneratingCoverAudio
  /\ coverAudioBufferRef # NoBuffer

\* C22: whenever a generation is started, the page count handed to
\* handleGenerateStory is an integer of 1..50 and the plot of the form is
\* not blank; and the numPages state of the form is always an integer of at
\* least 1, whatever was typed.
C22_FormPassesValidCount ==
  [][ /\ (pc # "title" /\ pc' = "title") =>
           /\ numPages' \in 1..50
           /\ numPages' = formNumPages
           /\ trim(plot) # << >>
      /\ formNumPages' \in Nat \ {0} ]_vars

C22_Witness ==
  /\ pc = "title"
  /\ numPages = 50
  /\ plot = <<" ", "Q", " ">>

\* C23: a step of the pipeline (the publication of a later page, the end
\* of the generation) leaves every page already displayed as it is, a
\* regenerated image or narration included; only the completion of a
\* regeneration changes a displayed page.
C23_ReplacementKept ==
  [][ (SameGeneration /\ Len(regens') >= Len(regens)) =>
        \A k \in 1..Len(storyPages) :
          /\ k <= Len(storyPages')
          /\ storyPages'[k] = storyPages[k] ]_vars

\* C24: the text and the imagePrompt of every displayed page are those the
\* structure step of the generation that made the list returned for that
\* page, whatever regenerations started before that generation.
C24_PagesOfCurrentStory ==
  \A k \in 1..Len(storyPages) :
    /\ k <= Len(pagesWithPrompts)
    /\ storyPages[k].text = pagesWithPrompts[k].text
    /\ storyPages[k].imagePrompt = pagesWithPrompts[k].imagePrompt

\* C25: the completion of a regeneration started in the displayed story
\* leaves the audioData of every page as it was when it is a regeneration
\* of the image, and the imageUrl of every page as it was when it is a
\* regeneration of the narration, other regenerations of the same page
\* having completed in between or not.
C25_RegenerationsIndependent ==
  [][ \A k \in 1..Len(regens) :
        ( /\ regens' = RemoveAt(regens, k)
          /\ regens[k].mounted
          /\ Len(storyPages') = Len(storyPages) ) =>
          \A j \in 1..Len(storyPages) :
            /\ regens[k].kind = "image" =>
                 storyPages'[j].audioData = storyPages[j].audioData
            /\ regens[k].kind # "image" =>
                 storyPages'[j].imageUrl = storyPages[j].imageUrl ]_vars

\* A step of the video job at position k of videoJobs: it moves on or ends.
videoJobStepped(k) ==
  /\ k \in 1..Len(videoJobs)
  /\ \/ videoJobs' = RemoveAt(videoJobs, k)
     \/ /\ Len(videoJobs') = Len(videoJobs)
        /\ videoJobs'[k] # videoJobs[k]
        /\ videoJobs'[k].id = videoJobs[k].id
        /\ videoJobs'[k].current = videoJobs[k].current

\* C26: the start of a generation leaves videoUrl null and the video status
\* idle, and no step of a video job started for a previous story changes
\* videoUrl, videoGenerationStatus or error.
C26_VideoOfCurrentStory ==
  [][ /\ ~SameGeneration =>
           videoUrl' = NULL /\ ~videoGenerationStatus'.isLoading
      /\ \A k \in 1..Len(videoJobs) :
           (videoJobStepped(k) /\ ~videoJobs[k].current) =>
             /\ videoUrl' = videoUrl
             /\ videoGenerationStatus' = videoGenerationStatus
             /\ error' = error ]_vars

\* The calls of handleGenerateVideo made for the displayed story that are
\* inside generateStoryVideo.
videoJobsInFlight ==
  { k \in 1..Len(videoJobs) :
      /\ videoJobs[k].current
      /\ videoJobs[k].pc \in {"generateVideos", "timer", "poll"} }

\* C27: at most one call of generateStoryVideo made for the displayed story
\* is in flight at any time, the clicks made while handleGenerateVideo
\* awaits the authorization check included.
C27_OneVideoJob == Cardinality(videoJobsInFlight) <= 1

\* The node sourceNodeRef refers to has been started and has not been
\* stopped and has not played to its end.
refSourcePlaying ==
  sourceNodeRef # NoSource /\ sources[sourceNodeRef].state = "playing"

\* The node sourceNodeRef refers to has been started and its onended has
\* not run yet.
refSourceLive ==
  sourceNodeRef # NoSource /\ sources[sourceNodeRef].state # "free"

\* C28: isPlaying is true while the source sourceNodeRef refers to is
\* started and not stopped or ended, and false once that source's onended
\* has run or there is no such source; the onended of an older source does
\* not clear isPlaying while the referenced source plays; and no two
\* sources of page narration play at once.
C28_PlayingMatchesSource ==
  /\ refSourcePlaying => isPlaying
  /\ isPlaying => refSourceLive
  /\ Cardinality({ id \in activeSources : sources[id].kind = "page" }) <= 1

\* The regenerations of an image started in the displayed story that are
\* awaiting the image call.
imageRegensInFlight ==
  { k \in 1..Len(regens) : regens[k].kind = "image" /\ regens[k].mounted }

\* C29: while a regeneration of the image of a page is in flight
\* isRegeneratingImage is the number of that page, whatever regenerations
\* of other pages start or finish meanwhile, and no two regenerations of
\* the image of one page are in flight together.
C29_ImageFlagHeld ==
  /\ \A k \in imageRegensInFlight :
       isRegeneratingImage = regens[k].page.pageNumber
  /\ \A k, l \in imageRegensInFlight :
       regens[k].page.pageNumber = regens[l].page.pageNumber => k = l

\* The regenerations of a narration started in the displayed story that are
\* awaiting the speech call.
narrationRegensInFlight ==
  { k \in 1..Len(regens) :
      regens[k].kind \in {"narration", "voice"} /\ regens[k].mounted }

\* C30: when the reply to a regeneration of a narration or to a change of
\* voice arrives, the page that was displayed at the request is the only
\* page that changes, and what changes in it is its audioData; the page
\* displayed at the arrival, when it is another one, stays as it is.
C30_AppliedToRequestedPage ==
  [][ \A k \in narrationRegensInFlight :
        (regens' = RemoveAt(regens, k) /\ Len(storyPages') = Len(storyPages)) =>
          \A j \in 1..Len(storyPages) :
            IF storyPages[j].pageNumber = regens[k].page.pageNumber
              THEN storyPages'[j] \in
                     { storyPages[j],
                       withAudioData(regens[k].page, storyPages'[j].audioData) }
              ELSE storyPages'[j] = storyPages[j] ]_vars

\* A regeneration of the narration of a page awaits its reply while the
\* text view of another page is displayed, and the reply can arrive.
C30_Witness ==
  \E k \in narrationRegensInFlight :
    /\ isTextViewAt(currentViewIndex)
    /\ page # NoPageData
    /\ page.pageNumber # regens[k].page.pageNumber
    /\ page.audioData # "AAAAAA"
    /\ ENABLED (\E reply \in OtherSpeechReplies :
                  /\ generateSpeech(reply).ok
                  /\ narrationRegenerated(k, reply))

\* The positions of the displayed list whose page a step changes.
changedPages ==
  { j \in 1..Len(storyPages) :
      j > Len(storyPages') \/ storyPages'[j] # storyPages[j] }

\* C31: the displayed page at position i has pageNumber i, and the update
\* of a page at the end of a regeneration replaces at most one element of
\* the list, none when no page of the list has the pageNumber given.
C31_PageNumbersInOrder ==
  /\ [] PageNumbersInOrder(storyPages)
  /\ [][ \A k \in 1..Len(regens) :
           regens' = RemoveAt(regens, k) =>
             /\ Len(storyPages') = Len(storyPages)
             /\ Cardinality(changedPages) <= 1
             /\ changedPages \subseteq {regens[k].page.pageNumber} ]_vars

\* Page 2 of a story of two pages has its narration regenerated.
C31_Witness ==
  /\ Len(storyPages) = 2
  /\ storyPages[2].audioData = "AAAAAA"
  /\ storyPages[1].audioData # "AAAAAA"

\* C32: a call of handleGenerateStory is past its start and before its end
\* only while generationStatus.isLoading, and a generation starts only when
\* none is active, so that the pages published between two starts are
\* those of one generation.
C32_OnePipeline ==
  /\ [](pc # "idle" => generationStatus.isLoading)
  /\ [][ (pc # "title" /\ pc' = "title") =>
           pc = "idle" /\ ~generationStatus.isLoading ]_vars

\* A second generation has published a page: a regeneration started on
\* the story before it is still awaited.
C32_Witness ==
  /\ Len(storyPages) >= 1
  /\ pc # "idle"
  /\ \E k \in 1..Len(regens) : ~regens[k].mounted

\* C33: the step that starts a generation, which issues the title call,
\* leaves the page list and the title empty, videoUrl and error null and the
\* video status not loading, so that StorybookView is unmounted; and the
\* view mounted by the first publication has its cursor on the cover.
C33_StartClearsStory ==
  [][ /\ (pc # "title" /\ pc' = "title") =>
           /\ storyPages' = << >>
           /\ storyTitle' = << >>
           /\ videoUrl' = NULL
           /\ error' = NULL
           /\ ~videoGenerationStatus'.isLoading
           /\ ~mounted'
           /\ currentViewIndex' = 0
           /\ TitleCall \in pipelineCalls'
      /\ (~mounted /\ mounted') => currentViewIndex' = 0 ]_vars

\* A generation has started over a story that had a video, and its title
\* call is awaited.
C33_Witness ==
  /\ pc = "title"
  /\ storyPages = << >>
  /\ videoUrl = NULL
  /\ \E k \in 1..Len(videoJobs) : ~videoJobs[k].current

\* C34: while a story is displayed, a move of the cursor and the start or
\* the end of a regeneration of an image or of a narration started in that
\* story leave coverAudioData as it was.
C34_CoverAudioKept ==
  [][ ( /\ mounted
        /\ Len(storyPages') = Len(storyPages)
        /\ \A k \in 1..Len(regens) : regens[k].mounted
        /\ currentViewIndex' # currentViewIndex \/ regens' # regens ) =>
        coverAudioData' = coverAudioData ]_vars

C36_TitleFirstHasNPages ==
  (outcome = "completed" /\ pc = "idle") =>
    /\ PageNumbersInOrder(storyPages)
    /\ Len(storyPages) = numPages

\* C37: the step that unmounts StorybookView leaves no source of page
\* narration or of cover narration started and not ended, and none is
\* active while no view is mounted.
C37_TeardownSilences ==
  /\ [](~mounted => activeSources = {})
  /\ [][ (mounted /\ ~mounted') =>
           /\ activeSources' = {}
           /\ sourceNodeRef' = NoSource
           /\ coverAudioSourceNodeRef' = NoSource ]_vars

\* The cover narration is playing in a displayed story and the form can be
\* submitted, which unmounts the view.
C37_Witness ==
  /\ mounted
  /\ coverAudioSourceNodeRef # NoSource
  /\ sources[coverAudioSourceNodeRef].state = "playing"
  /\ microtasksDrained
  /\ ~submitDisabled

====
